---- MODULE Spec2Model ----
(***************************************************************************)
(* The evolution engine of the DGM extension (EvolutionEngine.ts) with the *)
(* collaborators it drives: PopulationManager, FitnessEvaluator,           *)
(* SelectionStrategy, CrossoverOperator, MutationGenerator and             *)
(* ArchiveManager.                                                         *)
(*                                                                         *)
(* The engine runs on one JavaScript thread.  An asynchronous method is a  *)
(* coroutine: the code between two awaits runs atomically and is one       *)
(* action here; at an await other callbacks (a command, a timer, a poll of *)
(* stopEvolution) may run.                                                 *)
(*                                                                         *)
(* Numbers.  A fitness value is an integer number of tenths (7 is 0.7).    *)
(* A rate of the configuration is an integer number of tenths as well, so  *)
(* Math.floor(n * rate) is (n * rate) \div 10.                             *)
(***************************************************************************)
EXTENDS Integers, Sequences, FiniteSets, TLC

(***************************************************************************)
(* Bounds of the model.                                                    *)
(***************************************************************************)
\* config.populationSize of the modelled configuration
PopulationSize == 3
\* largest `generations` argument a direct evolve call is given
MaxGens == 2
\* a direct call, a timer or the interval starts a cycle only while the
\* generations evolved so far (persisted or of the current population),
\* with the ones asked for, do not exceed this
MaxGeneration == 2
\* the same, where the callers or the sessions are the subject
MaxGenerationSchedule == 1
\* no cycle is started once this many agent ids are in use
MaxAgentId == 12
\* the same, in the specification of the long run (SpecLong)
MaxGenerationLong == 14
\* number of activations (sessions) of the extension
MaxSessions == 2
\* number of timers scheduleEvolution creates in one session
MaxTimers == 2
\* number of entries the archive is given by direct archiveAgent calls
MaxEntries == 2
\* largest population and largest count a direct select call is given
MaxSelectSize == 3
MaxSelectCount == 4
\* largest number of agents an evaluateBatch call is given
MaxBatch == 2
\* the same, where the batches of evaluateBatch are the subject (SpecBatch)
MaxBatchAgents == 7
\* largest number of entries a direct buildLineageTree call is given
MaxLineage == 3
\* largest limit and largest offset of a paged search
MaxPage == 3
\* largest population whose elites are taken by a direct call
MaxEliteSize == 3
\* largest population a direct calculateStatistics call is given
MaxStatisticsSize == 5
\* the scenario of ten generations with ten members (SpecScenario)
ScenarioPopulationSize == 10
ScenarioGenerations == 10

(***************************************************************************)
(* Values of the program.                                                  *)
(***************************************************************************)
Undefined == "undefined"

\* AgentType, in declaration order (Object.values(AgentType))
AgentTypes == <<"requirements", "architecture", "code-generation", "testing", "deployment">>

\* getDefaultConfiguration().evolution: mutationRate 0.1, crossoverRate 0.7,
\* elitismRate 0.1
DefaultMutationRate == 1
DefaultCrossoverRate == 7
DefaultElitismRate == 1
\* an elitism rate a user may configure instead (0.5)
HighElitismRate == 5
\* the evolution configuration has no convergenceThreshold field
\* (EvolutionConfiguration, getDefaultConfiguration): reading it gives undefined
ConvergenceThreshold == Undefined

\* getDefaultConfiguration().evolution, with the population size of the model
DefaultConfiguration ==
    [enabled |-> TRUE, autoEvolve |-> TRUE, populationSize |-> PopulationSize,
     mutationRate |-> DefaultMutationRate, crossoverRate |-> DefaultCrossoverRate,
     elitismRate |-> DefaultElitismRate, selectionStrategy |-> "tournament",
     convergenceThreshold |-> ConvergenceThreshold]

\* the scenario: ten members, elitism rate 0.1, mutation rate 0, parents
\* selected by rank
ScenarioConfiguration ==
    [DefaultConfiguration EXCEPT !.populationSize = ScenarioPopulationSize,
                                 !.mutationRate = 0, !.selectionStrategy = "rank"]

\* scheduleEvolution: delay in ms by priority
DelayHigh == 1000
DelayMedium == 5000
DelayLow == 30000
Priorities == {"high", "medium", "low"}

\* archiveBestAgents archives the top 5 members
ArchiveTop == 5
\* hasConverged looks at the last 10 cycles
ConvergenceWindow == 10

\* Scores FitnessEvaluator.evaluate can return (tenths), by kind of agent.
\* An agent object with its methods (a BaseAgent) executes every benchmark
\* task: codeQuality 0.7, reliability 1, userSatisfaction 0.7, the rest
\* depends on timing and load; overall lies between 0.6 and 0.85.
EvalWithMethods == {6, 8}
\* An object without execute fails every task: codeQuality, performance and
\* reliability are 0; overall lies between 0.1 and 0.26.
EvalWithoutMethods == {1, 2}
\* PopulationManager.createInitialFitness: overall is random in [0.3, 0.7]
InitialFitnessValues == {5}

Callers == {"cmd1", "cmd2", "timer", "auto"}

Max(a, b) == IF a >= b THEN a ELSE b
Min(a, b) == IF a <= b THEN a ELSE b
Range(s) == {s[i] : i \in 1..Len(s)}

RECURSIVE SumSeq(_)
SumSeq(s) == IF s = <<>> THEN 0 ELSE Head(s) + SumSeq(Tail(s))

RECURSIVE MaxSeq(_)
MaxSeq(s) == IF Len(s) = 1 THEN s[1] ELSE Max(Head(s), MaxSeq(Tail(s)))

RECURSIVE MinSeq(_)
MinSeq(s) == IF Len(s) = 1 THEN s[1] ELSE Min(Head(s), MinSeq(Tail(s)))

\* Math.floor(n * rate), rate in tenths
FloorRate(n, rate) == (n * rate) \div 10

VARIABLES
    session,            \* number of activations so far
    lifecycle,          \* "inactive", "active" (initialize() done), "shuttingDown", "shutdown"
    config,             \* configManager.getConfiguration().evolution
    isRunning,          \* EvolutionEngine.isRunning
    shouldStop,         \* EvolutionEngine.shouldStop
    currentPopulation,  \* EvolutionEngine.currentPopulation
    currentCycle,       \* EvolutionEngine.currentCycle: the caller whose cycle it is, or Undefined
    history,            \* EvolutionEngine.history
    calls,              \* the evolve() coroutine of each caller
    lastResult,         \* how the most recent evolve() call ended
    stopper,            \* the stopEvolution() coroutine
    evolutionTimer,     \* EvolutionEngine.evolutionTimer: a timer handle or 0
    timers,             \* the pending setTimeout timers
    nextTimer,          \* next timer handle
    autoInterval,       \* the setInterval of startAutoEvolution is installed
    nextAgentId,        \* source of fresh agent ids
    archive,            \* ArchiveManager.archive
    store,              \* context.globalState
    committedPopulation,\* the population as initialize() or the last completed
                        \* Replacement produced it (kept for comparison only)
    searchResult,       \* what the last query of the archive returned to its caller
    selection,          \* the last SelectionStrategy.select call: arguments and outcome
    weights,            \* FitnessEvaluator.weights
    evaluations,        \* the FitnessEvaluator.evaluate coroutines of a batch
    memberFitness,      \* the FitnessScore PopulationManager last gave a new member
    returned,           \* the last direct call of a function of a component:
                        \* its arguments and what it returned
    sink                \* the telemetry collector activate() gave the engine

vars == <<session, lifecycle, config, isRunning, shouldStop, currentPopulation,
          currentCycle, history, calls, lastResult, stopper, evolutionTimer,
          timers, nextTimer, autoInterval, nextAgentId, archive, store,
          committedPopulation, searchResult, selection, weights, evaluations,
          memberFitness, returned, sink>>

\* the variables of the calls made on the components directly
directVars == <<returned, sink>>
componentVars == <<searchResult, selection, weights, evaluations, memberFitness, directVars>>

\* the variables of the engine and its timers
engineState == <<session, lifecycle, config, isRunning, shouldStop, currentPopulation,
                 currentCycle, history, calls, lastResult, stopper, evolutionTimer,
                 timers, nextTimer, autoInterval, nextAgentId, committedPopulation>>

engineVars == <<isRunning, shouldStop, currentPopulation, currentCycle, history, calls>>
timerVars == <<evolutionTimer, timers, nextTimer, autoInterval>>


(***************************************************************************)
(* Agents and populations (PopulationManager).                             *)
(***************************************************************************)
\* An agent object.  hasMethods tells whether the object is a BaseAgent
\* instance, whose prototype carries execute() and serialize(): an object
\* built with the spread syntax {...agent} copies the own fields only.
\* parentId 0 is "no parent".  version is the patch number of the version
\* string '1.0.<patch>'; capabilities is the list of capability names, empty
\* for a new BaseAgent.
BaselineVersion == 0

BaseAgent(id, type) ==
    [id |-> id, type |-> type, hasMethods |-> TRUE, generation |-> 0, parentId |-> 0,
     version |-> BaselineVersion, capabilities |-> <<>>]

createRandomAgent(id, type) == BaseAgent(id, type)

\* averageFitness is kept exactly, as AvgScale times its value in tenths:
\* AvgScale is a multiple of every population size of the model
AvgScale == 3 * 4 * 5 * 7

EmptyStatistics ==
    [size |-> 0, averageFitness |-> 0, bestFitness |-> 0, worstFitness |-> 0]

FitnessValues(agents) == [i \in 1..Len(agents) |-> agents[i].fitness]

calculateStatistics(agents) ==
    IF Len(agents) = 0 THEN EmptyStatistics
    ELSE [size |-> Len(agents),
          averageFitness |-> (SumSeq(FitnessValues(agents)) * AvgScale) \div Len(agents),
          bestFitness |-> MaxSeq(FitnessValues(agents)),
          worstFitness |-> MinSeq(FitnessValues(agents))]

NoPopulation == [generation |-> 0, agents |-> <<>>, statistics |-> EmptyStatistics]

\* PopulationManager.calculateDiversity.  The Shannon index H of the type
\* distribution, -sum p * log2(p) with p = count / total, satisfies
\* 2^(total * H) = total^total / product(count^count); a diversity is kept
\* exactly as the three integers num, den and max, its value being
\* log2(num / den) / log2(max): H normalised by maxDiversity = log2(max),
\* both multiplied by total.
RECURSIVE Power(_, _)
Power(base, exponent) == IF exponent = 0 THEN 1 ELSE base * Power(base, exponent - 1)

\* typeCounts.get(type)
TypeCount(agents, type) == Cardinality({k \in 1..Len(agents) : agents[k].agent.type = type})

RECURSIVE CountPowers(_, _)
CountPowers(agents, i) ==
    IF i > Len(AgentTypes) THEN 1
    ELSE Power(TypeCount(agents, AgentTypes[i]), TypeCount(agents, AgentTypes[i]))
            * CountPowers(agents, i + 1)

\* the diversity 1.0 and the diversity 0
DiversityOne == [num |-> 2, den |-> 1, max |-> 2]
DiversityZero == [num |-> 1, den |-> 1, max |-> 2]

calculateDiversity(agents) ==
    LET total == Len(agents)
        maxTypes == Min(total, Len(AgentTypes))
    IN  IF total < 2 THEN DiversityOne
        ELSE IF maxTypes > 1
             THEN [num |-> Power(total, total), den |-> CountPowers(agents, 1),
                   max |-> Power(maxTypes, total)]
             ELSE DiversityZero

\* the statistics with their diversity (convergence and mutationSuccessRate
\* are left out)
calculateStatisticsWithDiversity(agents) ==
    [statistics |-> calculateStatistics(agents),
     diversity |-> IF Len(agents) = 0 THEN DiversityZero ELSE calculateDiversity(agents)]

\* the type of the k-th agent (k from 1) of an initial population of `size`:
\* size is split as evenly as possible, the remainder going to the first types
RECURSIVE InitialTypeIndex(_, _, _)
InitialTypeIndex(k, size, i) ==
    LET count == (size \div Len(AgentTypes)) + (IF i - 1 < size % Len(AgentTypes) THEN 1 ELSE 0)
    IN  IF i >= Len(AgentTypes) \/ k <= count THEN i
        ELSE InitialTypeIndex(k - count, size, i + 1)

createInitialPopulation(size, firstId, fit) ==
    LET agents == [k \in 1..size |->
                     [agent |-> createRandomAgent(firstId + k - 1,
                                                  AgentTypes[InitialTypeIndex(k, size, 1)]),
                      fitness |-> fit[k], age |-> 0, isElite |-> FALSE]]
    IN  [generation |-> 0, agents |-> agents, statistics |-> calculateStatistics(agents)]

\* every member gets a fresh random fitness and age 0; the first 10% are
\* flagged elite
createPopulation(agents, generation, fit) ==
    LET members == [k \in 1..Len(agents) |->
                      [agent |-> agents[k], fitness |-> fit[k], age |-> 0,
                       isElite |-> k - 1 < FloorRate(Len(agents), 1)]]
    IN  [generation |-> generation, agents |-> members,
         statistics |-> calculateStatistics(members)]

\* Array.prototype.sort with (a, b) => b.fitness.overall - a.fitness.overall:
\* descending by fitness, stable
RECURSIVE InsertByFitness(_, _)
InsertByFitness(m, sorted) ==
    IF sorted = <<>> THEN <<m>>
    ELSE IF Head(sorted).fitness >= m.fitness
         THEN <<Head(sorted)>> \o InsertByFitness(m, Tail(sorted))
         ELSE <<m>> \o sorted

RECURSIVE SortPrefix(_, _)
SortPrefix(s, n) ==
    IF n = 0 THEN <<>> ELSE InsertByFitness(s[n], SortPrefix(s, n - 1))

sortByFitnessDesc(s) == SortPrefix(s, Len(s))

slice(s, from, to) == SubSeq(s, from + 1, Min(to, Len(s)))

AgentsOf(members) == [i \in 1..Len(members) |-> members[i].agent]

\* replacePopulation: the elites are the first floor(length * elitismRate)
\* agents of the members sorted by descending fitness
selectElites(members, elitismRate) ==
    AgentsOf(slice(sortByFitnessDesc(members), 0, FloorRate(Len(members), elitismRate)))

(***************************************************************************)
(* FitnessEvaluator.evaluate: the scores it can return for an agent.  A    *)
(* task of an agent without execute throws inside the evaluator's try and  *)
(* counts as failed.                                                       *)
(***************************************************************************)
evaluate(agent) == IF agent.hasMethods THEN EvalWithMethods ELSE EvalWithoutMethods

(***************************************************************************)
(* FitnessEvaluator in detail: the components of a score.  Here a score is *)
(* an integer number of 1/100000 (One is 1.0) and a weight an integer      *)
(* number of hundredths, so that the weighted sum is exact.                *)
(*                                                                         *)
(* An agent under evaluation is what the evaluator reads of it:            *)
(*   execute   what agent.execute does for each of the five benchmark      *)
(*             tasks, in the order code-quality-1, code-quality-2,         *)
(*             performance-1, reliability-1, reliability-2: "success" (the *)
(*             result BaseAgent.execute returns, metrics.qualityScore      *)
(*             0.7), "failure" (a result with success false), "throws",    *)
(*             or "never" (the promise is never settled)                   *)
(*   hasState  whether agent.state is an object                            *)
(*   fitness   agent.state.fitness.overall                                 *)
(***************************************************************************)
One == 1000 * 100
Tenth == One \div 10

\* BaseAgent.execute: metrics.qualityScore is 0.7
QualityScore == 7 * Tenth

\* the weighted sum of calculateOverallFitness
calculateOverallFitness(components, w) ==
    (components.codeQuality * w.codeQuality
     + components.performance * w.performance
     + components.reliability * w.reliability
     + components.userSatisfaction * w.userSatisfaction
     + components.resourceEfficiency * w.resourceEfficiency) \div 100

\* what one code quality task adds to totalScore: scoreCodeQuality of a
\* successful result (its metrics.qualityScore), nothing otherwise
scoreCodeQuality(outcome) == IF outcome = "success" THEN QualityScore ELSE 0

\* totalScore / completedTasks over the two tasks: a task that fails or
\* throws is counted as completed
evaluateCodeQuality(agent) ==
    (scoreCodeQuality(agent.execute[1]) + scoreCodeQuality(agent.execute[2])) \div 2

\* (baseScore + timeScore) / 2 with baseScore 0.7 for a successful result
\* and timeScore = max(0, 1 - executionTime / 5000)
scorePerformance(executionTime) ==
    (7 * Tenth + Max(0, One - (executionTime * One) \div 5000)) \div 2

\* the one performance task; executionTime is what endTrace measured (ms)
evaluatePerformance(agent, executionTime) ==
    IF agent.execute[3] = "success" THEN scorePerformance(executionTime) ELSE 0

\* successCount / totalTasks over the two tasks
evaluateReliability(agent) ==
    (Cardinality({t \in 4..5 : agent.execute[t] = "success"}) * One) \div 2

\* Math.min(1.0, 0.7 + (fitnessHistory.overall - 0.5) * 0.4)
evaluateUserSatisfaction(agent) ==
    Min(One, 7 * Tenth + ((agent.fitness - 5 * Tenth) * 4) \div 10)

\* (memoryEfficiency + cpuEfficiency) / 2 from getSystemMetrics():
\* memory.percentage is rss / (rss + external) in percent, cpu.usage the CPU
\* seconds the process has used so far
evaluateResourceEfficiency(memoryPercentage, cpuUsage) ==
    ((One - (memoryPercentage * One) \div 100) + (One - (cpuUsage * One) \div 100)) \div 2

\* the component evaluators that throw for an agent: evaluateUserSatisfaction
\* reads agent.state.fitness, a TypeError when agent.state is undefined; the
\* three that run tasks catch what a task throws
ThrowingEvaluators(agent) == IF agent.hasState THEN {} ELSE {"userSatisfaction"}

\* an evaluator awaits a task that is never settled
Hangs(agent) == \E t \in 1..5 : agent.execute[t] = "never"

\* evaluateComponents: Promise.all of the five evaluators is rejected as
\* soon as one of them throws, is resolved when all have returned, and stays
\* pending otherwise
evaluateComponents(agent, executionTime, memoryPercentage, cpuUsage) ==
    IF ThrowingEvaluators(agent) # {} THEN [status |-> "rejected"]
    ELSE IF Hangs(agent) THEN [status |-> "pending"]
    ELSE [status |-> "resolved",
          components |->
              [codeQuality |-> evaluateCodeQuality(agent),
               performance |-> evaluatePerformance(agent, executionTime),
               reliability |-> evaluateReliability(agent),
               userSatisfaction |-> evaluateUserSatisfaction(agent),
               resourceEfficiency |-> evaluateResourceEfficiency(memoryPercentage, cpuUsage)]]

createMinimalFitness ==
    [overall |-> Tenth,
     components |-> [codeQuality |-> Tenth, performance |-> Tenth, reliability |-> Tenth,
                     userSatisfaction |-> Tenth, resourceEfficiency |-> Tenth]]

\* the telemetry collector the components were constructed with: a collector
\* that records, a collector whose telemetry is disabled (trackEvent and
\* trackMetric return at once), or undefined (activate() constructs a
\* collector only if telemetry is enabled)
Sinks == {"working", "dropping", "absent"}

\* a call of a method of the collector throws (a TypeError on undefined)
SinkThrows(telemetry) == telemetry = "absent"

\* the catch of evaluate throws itself: endTrace(traceId, 'failed') calls
\* this.telemetryCollector.trackPerformance, so the error goes to the caller
Rethrow == [status |-> "raised", failed |-> TRUE, fitness |-> createMinimalFitness]

\* the catch of evaluate: the error is logged and the minimal fitness
\* returned
OnEvaluationError == [status |-> "returned", failed |-> TRUE, fitness |-> createMinimalFitness]

\* how an evaluate call ends once the promise of evaluateComponents is
\* settled; failed tells that the evaluation failed as a whole, weights
\* records the weights the score was computed with
\* (trackMetric and endTrace are called on every path: with a collector that
\* throws the try block fails at the latest there, and then the catch)
evaluateResult(agent, w, telemetry, executionTime, memoryPercentage, cpuUsage) ==
    LET r == evaluateComponents(agent, executionTime, memoryPercentage, cpuUsage)
    IN  IF SinkThrows(telemetry)
        THEN [Rethrow EXCEPT !.fitness = [weights |-> w] @@ @]
        ELSE IF r.status = "rejected"
        THEN [OnEvaluationError EXCEPT !.fitness = [weights |-> w] @@ @]
        ELSE [status |-> "returned", failed |-> FALSE,
              fitness |-> [weights |-> w,
                           overall |-> calculateOverallFitness(r.components, w),
                           components |-> r.components]]

\* PopulationManager.createInitialFitness: overall is 0.3 + random * 0.4,
\* each component overall + (random - 0.5) * 0.2 (here with one jitter for
\* all five)
createInitialFitness(overall, jitter) ==
    [kind |-> "initial", overall |-> overall,
     components |-> [codeQuality |-> overall + jitter, performance |-> overall + jitter,
                     reliability |-> overall + jitter, userSatisfaction |-> overall + jitter,
                     resourceEfficiency |-> overall + jitter]]

(***************************************************************************)
(* SelectionStrategy.select: the set of parent lists it can return.        *)
(***************************************************************************)
SeqsOver(S, n) == IF n = 0 THEN {<<>>} ELSE [1..n -> S]

rankSelection(agents, count) ==
    {AgentsOf(slice(sortByFitnessDesc(agents), 0, count))}

\* a tournament is tournamentSize distinct members in random order; reduce
\* keeps the first member of the highest fitness
TournamentWinners(agents) ==
    LET tournamentSize == Max(2, FloorRate(Len(agents), 1))
        k == Min(tournamentSize, Len(agents))
    IN  {i \in 1..Len(agents) :
            Cardinality({j \in 1..Len(agents) :
                            j # i /\ agents[j].fitness <= agents[i].fitness}) >= k - 1}

tournamentSelection(agents, count) ==
    IF count > 0 /\ Len(agents) = 0 THEN {}
    ELSE {[i \in 1..count |-> agents[w[i]].agent] : w \in SeqsOver(TournamentWinners(agents), count)}

\* the walk stops at the first member at which the running sum reaches the
\* draw; a draw of 0 stops at the first member
RouletteWinners(agents) ==
    {i \in 1..Len(agents) : i = 1 \/ agents[i].fitness > 0}

rouletteWheelSelection(agents, count) ==
    IF Len(agents) = 0 THEN {<<>>}
    ELSE {[i \in 1..count |-> agents[w[i]].agent] : w \in SeqsOver(RouletteWinners(agents), count)}

select(agents, count, strategy) ==
    CASE strategy = "tournament" -> tournamentSelection(agents, count)
      [] strategy = "roulette-wheel" -> rouletteWheelSelection(agents, count)
      [] strategy = "rank" -> rankSelection(agents, count)
      [] OTHER -> tournamentSelection(agents, count)

\* selectRandomAgents(agents, count): the first `count` of a shuffled copy,
\* as the sequence of their positions in agents: distinct positions in any
\* order, all of them when count is not less than the length
selectRandomAgents(agents, count) ==
    LET n == Min(count, Len(agents))
    IN  {t \in SeqsOver(1..Len(agents), n) : \A i, j \in 1..n : i # j => t[i] # t[j]}

\* tournament.reduce((best, current) => current.fitness.overall >
\* best.fitness.overall ? current : best): the position of the winner, the
\* first member being the first best
RECURSIVE reduceBest(_, _, _)
reduceBest(agents, tournament, best) ==
    IF tournament = <<>> THEN best
    ELSE reduceBest(agents, Tail(tournament),
                    IF agents[Head(tournament)].fitness > agents[best].fitness
                    THEN Head(tournament) ELSE best)

Winner(agents, tournament) == reduceBest(agents, Tail(tournament), Head(tournament))

\* Math.max(2, Math.floor(agents.length * 0.1))
TournamentSize(agents) == Max(2, FloorRate(Len(agents), 1))

\* How a select call ends, with the tournaments it drew.  SelectionStrategy
\* throws no error of its own; with no agents and a count above 0, reduce of
\* the empty tournament throws a TypeError.
SelectOutcomes(agents, count, strategy) ==
    IF strategy \in {"roulette-wheel", "rank"}
    THEN {[status |-> "returned", agents |-> agents, count |-> count, strategy |-> strategy,
           selected |-> parents, tournaments |-> <<>>] :
             parents \in select(agents, count, strategy)}
    ELSE IF count > 0 /\ Len(agents) = 0
    THEN {[status |-> "TypeError", agents |-> agents, count |-> count, strategy |-> strategy,
           selected |-> <<>>, tournaments |-> <<>>]}
    ELSE {[status |-> "returned", agents |-> agents, count |-> count, strategy |-> strategy,
           selected |-> [i \in 1..count |-> agents[Winner(agents, ts[i])].agent],
           tournaments |-> ts] :
             ts \in SeqsOver(selectRandomAgents(agents, TournamentSize(agents)), count)}

(***************************************************************************)
(* CrossoverOperator and MutationGenerator.                                *)
(***************************************************************************)
\* {...primaryParent, id, version, capabilities, metadata}: a plain object
\* (variant for comparison: the generation of the primary parent is kept, as
\* the spread of its metadata alone would)
InheritedGeneration(primaryParent, secondaryParent) == primaryParent.generation

\* Math.max(primaryParent.metadata.generation, secondaryParent.metadata.generation) + 1
ChildGeneration(primaryParent, secondaryParent) ==
    Max(primaryParent.generation, secondaryParent.generation) + 1

createChild(primaryParent, secondaryParent, id) ==
    [id |-> id, type |-> primaryParent.type, hasMethods |-> FALSE,
     generation |-> ChildGeneration(primaryParent, secondaryParent),
     parentId |-> primaryParent.id,
     version |-> BaselineVersion,
     capabilities |-> primaryParent.capabilities \o slice(secondaryParent.capabilities, 0, 1)]

crossover(parent1, parent2, firstId) ==
    <<createChild(parent1, parent2, firstId), createChild(parent2, parent1, firstId + 1)>>

\* for (i = 0; i < parents.length - 1; i += 2)
RECURSIVE performCrossover(_, _)
performCrossover(parents, firstId) ==
    IF Len(parents) < 2 THEN <<>>
    ELSE crossover(parents[1], parents[2], firstId)
         \o performCrossover(Tail(Tail(parents)), firstId + 2)

\* {...agent, id, version, metadata}
applyMutation(agent, id) ==
    [id |-> id, type |-> agent.type, hasMethods |-> FALSE,
     generation |-> agent.generation + 1, parentId |-> agent.id,
     version |-> agent.version + 1, capabilities |-> agent.capabilities]

\* what mutate can do with one agent: Math.random() > mutationRate returns
\* the agent itself, otherwise a mutation is generated and applied
MutationOutcomes(mutationRate) ==
    IF mutationRate = 0 THEN {"same"} ELSE {"same", "mutated"}

\* the same, for a generator whose mutate can throw when it generates or
\* applies a mutation
MutationOutcomesOrFailure(mutationRate) ==
    IF mutationRate = 0 THEN {"same"} ELSE {"same", "mutated", "failed"}

\* the agents performMutation returns, outcome[i] telling what mutate did
\* with agents[i]; mutated agents take the ids from firstId on, an agent
\* whose mutation failed is kept
NumMutated(outcome, n) == Cardinality({i \in 1..n : outcome[i] = "mutated"})

MutatedAgents(agents, outcome, firstId) ==
    [i \in 1..Len(agents) |->
        IF outcome[i] = "mutated"
        THEN applyMutation(agents[i], firstId + NumMutated(outcome, i - 1))
        ELSE agents[i]]

(***************************************************************************)
(* ArchiveManager.  entries is the Map of entries in insertion order.  An  *)
(* index (a Map from a key to a list of entry ids) is the sequence of its  *)
(* (key, id) pairs in the order they were added: the list of a key is the  *)
(* ids of the pairs with that key.                                         *)
(***************************************************************************)
EmptyIndex == [byFitness |-> <<>>, byGeneration |-> <<>>, byAgentType |-> <<>>, byTag |-> <<>>]

EmptyArchiveStatistics ==
    [totalEntries |-> 0, uniqueAgents |-> 0, averageFitness |-> 0, bestFitness |-> 0]

EmptyArchive == [entries |-> <<>>, index |-> EmptyIndex, statistics |-> EmptyArchiveStatistics]

TypeTag(type) == [kind |-> "type", type |-> type, generation |-> 0]
ReasonTag(generation) == [kind |-> "reason", type |-> "", generation |-> generation]

\* the ids an index holds for a key
IdsOf(index, key) ==
    LET hits == SelectSeq(index, LAMBDA p : p.key = key)
    IN  [i \in 1..Len(hits) |-> hits[i].id]

\* agent.serialize() of a BaseAgent: configuration.parameters is {}, so the
\* snapshot carries no generation
serialize(agent) == [id |-> agent.id, type |-> agent.type, hasGeneration |-> FALSE]

\* the entry archiveAgent builds; reason is `Generation ${g} top performer`
NewEntry(id, agent, fitness, generation) ==
    [id |-> id, agentSnapshot |-> serialize(agent), fitness |-> fitness,
     tags |-> <<TypeTag(agent.type), ReasonTag(generation)>>]

\* Math.floor(overall * 10) / 10, in tenths
FitnessKey(entry) == entry.fitness

\* agentSnapshot.configuration?.parameters?.generation || 0
GenerationKey(entry) == 0

updateIndices(index, entry) ==
    [byFitness |-> Append(index.byFitness, [key |-> FitnessKey(entry), id |-> entry.id]),
     byAgentType |-> Append(index.byAgentType,
                            [key |-> entry.agentSnapshot.type, id |-> entry.id]),
     byTag |-> index.byTag \o [i \in 1..Len(entry.tags) |->
                                  [key |-> entry.tags[i], id |-> entry.id]],
     byGeneration |-> Append(index.byGeneration,
                             [key |-> GenerationKey(entry), id |-> entry.id])]

updateStatistics(entries, old) ==
    LET fit == [i \in 1..Len(entries) |-> entries[i].fitness]
    IN  [totalEntries |-> Len(entries),
         uniqueAgents |-> Cardinality({entries[i].agentSnapshot.id : i \in 1..Len(entries)}),
         averageFitness |-> IF Len(entries) > 0
                            THEN (SumSeq(fit) * AvgScale) \div Len(entries)
                            ELSE old.averageFitness,
         bestFitness |-> IF Len(entries) > 0 THEN MaxSeq(fit) ELSE old.bestFitness]

\* entry ids are random strings: the next id is one no entry has
FreshEntryId(entries) == Len(entries) + 1

\* archiveAgent up to its await of saveArchive: store, index, statistics
archiveAgent(a, agent, fitness, generation) ==
    LET entry == NewEntry(FreshEntryId(a.entries), agent, fitness, generation)
        entries == Append(a.entries, entry)
    IN  [entries |-> entries,
         index |-> updateIndices(a.index, entry),
         statistics |-> updateStatistics(entries, a.statistics)]

\* saveArchive: what globalState holds under 'archiveData' afterwards
saveArchive(a) == [entries |-> a.entries, statistics |-> a.statistics]

\* loadArchive into the archive of a new ArchiveManager: the saved entries
\* and statistics are restored
loadArchive(saved) ==
    [entries |-> saved.entries, index |-> EmptyIndex, statistics |-> saved.statistics]

(***************************************************************************)
(* ArchiveManager.search, getBestAgents and buildLineageTree.  A query is  *)
(* a record of the ArchiveQuery fields the model draws; a field left out   *)
(* by the caller is Undefined (limit and offset: 0, which `||` treats the  *)
(* same; minFitness and maxFitness: the empty sequence, a given number n   *)
(* being <<n>>).  dateRange is never given.                                *)
(***************************************************************************)
\* const limit = query.limit || 50
DefaultLimit == 50

EmptyQuery ==
    [agentType |-> Undefined, minFitness |-> <<>>, maxFitness |-> <<>>,
     tags |-> <<>>, sortBy |-> Undefined, limit |-> 0, offset |-> 0]

\* Array.prototype.sort with (a, b) => a.fitnessMetrics.overall -
\* b.fitnessMetrics.overall: ascending by fitness, stable
RECURSIVE InsertByFitnessAsc(_, _)
InsertByFitnessAsc(m, sorted) ==
    IF sorted = <<>> THEN <<m>>
    ELSE IF Head(sorted).fitness <= m.fitness
         THEN <<Head(sorted)>> \o InsertByFitnessAsc(m, Tail(sorted))
         ELSE <<m>> \o sorted

RECURSIVE SortPrefixAsc(_, _)
SortPrefixAsc(s, n) ==
    IF n = 0 THEN <<>> ELSE InsertByFitnessAsc(s[n], SortPrefixAsc(s, n - 1))

\* sortEntries(entries, sortBy = 'fitness-desc'); the date criteria are not
\* drawn, any other criterion leaves the order
sortEntries(entries, sortBy) ==
    CASE sortBy = Undefined \/ sortBy = "fitness-desc" -> sortByFitnessDesc(entries)
      [] sortBy = "fitness-asc" -> SortPrefixAsc(entries, Len(entries))
      [] OTHER -> entries

\* (variant for comparison: the lower end of the range excluded)
AboveMinFitness(entry, minFitness) == entry.fitness > minFitness

\* e.fitnessMetrics.overall >= query.minFitness
AtLeastMinFitness(entry, minFitness) == entry.fitness >= minFitness

\* e.fitnessMetrics.overall <= query.maxFitness
AtMostMaxFitness(entry, maxFitness) == entry.fitness <= maxFitness

\* query.tags.some(tag => e.tags.includes(tag))
HasSomeTag(entry, tags) == \E i \in 1..Len(tags) : tags[i] \in Range(entry.tags)

\* the entries search keeps, in the order of the Map: the filters given in
\* the query, one after the other
FilterEntries(a, query) ==
    LET typeEntries == Range(IdsOf(a.index.byAgentType, query.agentType))
        typed == IF query.agentType # Undefined
                 THEN SelectSeq(a.entries, LAMBDA e : e.id \in typeEntries)
                 ELSE a.entries
        above == IF query.minFitness # <<>>
                 THEN SelectSeq(typed, LAMBDA e : AtLeastMinFitness(e, query.minFitness[1]))
                 ELSE typed
        below == IF query.maxFitness # <<>>
                 THEN SelectSeq(above, LAMBDA e : AtMostMaxFitness(e, query.maxFitness[1]))
                 ELSE above
    IN  IF Len(query.tags) > 0
        THEN SelectSeq(below, LAMBDA e : HasSomeTag(e, query.tags))
        ELSE below

search(a, query) ==
    LET entries == sortEntries(FilterEntries(a, query), query.sortBy)
        totalCount == Len(entries)
        offset == query.offset
        limit == IF query.limit = 0 THEN DefaultLimit ELSE query.limit
    IN  [kind |-> "search",
         entries |-> slice(entries, offset, offset + limit),
         totalCount |-> totalCount,
         hasMore |-> offset + limit < totalCount,
         query |-> query]

\* Array.from(entries.values()).sort(desc).slice(0, limit)
getBestAgents(a, limit) ==
    [kind |-> "best", entries |-> slice(sortByFitnessDesc(a.entries), 0, limit),
     limit |-> limit]

\* entry.parentId.  archiveAgent builds its entry without a parentId, and
\* nothing sets one later: reading it gives undefined (0, as for an agent)
ParentIdOf(entry) == IF "parentId" \in DOMAIN entry THEN entry.parentId ELSE 0

\* the entry of an id
EntryOf(entries, id) == entries[CHOOSE i \in 1..Len(entries) : entries[i].id = id]

\* buildLineageTree(entries): an edge for every node whose parent is given
\* and is the id of a node, with the child's fitness less the parent's; the
\* root is the first node without a parent; the depth is the largest
\* generation of a snapshot; children gives the ids pushed to the children
\* of each node, in the order of the nodes
buildLineageTree(entries) ==
    LET ids == {entries[i].id : i \in 1..Len(entries)}
        linked == {i \in 1..Len(entries) :
                     ParentIdOf(entries[i]) # 0 /\ ParentIdOf(entries[i]) \in ids}
        roots == {i \in 1..Len(entries) : ParentIdOf(entries[i]) = 0}
        generations == [i \in 1..Len(entries) |-> GenerationKey(entries[i])]
    IN  [kind |-> "lineage",
         nodes |-> ids,
         children |-> [id \in ids |->
                          LET kids == SelectSeq(entries, LAMBDA e : ParentIdOf(e) = id)
                          IN  [k \in 1..Len(kids) |-> kids[k].id]],
         edges |-> {[from |-> ParentIdOf(entries[i]), to |-> entries[i].id,
                     fitnessChange |-> entries[i].fitness
                                         - EntryOf(entries, ParentIdOf(entries[i])).fitness] :
                    i \in linked},
         rootId |-> IF roots = {} THEN 0
                    ELSE entries[CHOOSE i \in roots : \A j \in roots : i <= j].id,
         depth |-> IF Len(entries) = 0 THEN 0 ELSE Max(0, MaxSeq(generations))]

NoSearch == [kind |-> "none"]

NoSelection == [status |-> "none"]

NoEvaluations == [batch |-> "none", agents |-> <<>>, i |-> 0, calls |-> <<>>, results |-> <<>>]

NoFitness == [kind |-> "none"]
NoReturn == [call |-> "none"]

\* FitnessEvaluator.weights as constructed, in hundredths
DefaultWeights ==
    [codeQuality |-> 25, performance |-> 20, reliability |-> 25, userSatisfaction |-> 15,
     resourceEfficiency |-> 15]

(***************************************************************************)
(* The engine's state.                                                     *)
(***************************************************************************)
EmptyHistory ==
    [cycles |-> <<>>, totalGenerations |-> 0, totalMutations |-> 0, successfulMutations |-> 0]

\* an EvolutionCycle; prevPhase records the value phase had before the last
\* assignment to it (kept to observe the order of the phases)
NoCycle ==
    [generation |-> 0, phase |-> "none", prevPhase |-> "none", endTime |-> FALSE,
     population |-> NoPopulation]

SetPhase(cycle, phase) == [cycle EXCEPT !.prevPhase = cycle.phase, !.phase = phase]

\* The coroutine of one evolve() call.  pc is the await it is suspended at:
\*   "evaluation"  in evaluatePopulation, awaiting evaluate of member evalIndex
\*   "selection"   evaluatePopulation returned
\*   "crossover"   selectParents returned
\*   "mutation"    performCrossover returned
\*   "replacement" performMutation returned
\*   "replaced"    in replacePopulation, awaiting createPopulation
\*   "archive"     runEvolutionCycle returned; in archiveBestAgents
\* alias tells that cycle.population is the object currentPopulation refers to.
\* mutation records, while the call is between performMutation and
\* replacePopulation, what performMutation was given and what mutate did.
NoMutation == [offspring |-> <<>>, outcome |-> <<>>, before |-> EmptyHistory]

IdleCall ==
    [pc |-> "idle", maxGenerations |-> 0, generation |-> 0, cycle |-> NoCycle,
     alias |-> FALSE, evalIndex |-> 0, parents |-> <<>>, offspring |-> <<>>,
     mutation |-> NoMutation, archived |-> 0, config |-> DefaultConfiguration]

\* how an evolve() call ended: "Completed" (a cycle was returned),
\* "AlreadyRunning" or "Error" (another error was thrown); endTime tells
\* whether the call's cycle had its endTime stamped
NoResult == [result |-> "none", endTime |-> FALSE]

DefaultStore == [archiveData |-> saveArchive(EmptyArchive), evolutionHistory |-> EmptyHistory]

Init ==
    /\ session = 0
    /\ lifecycle = "inactive"
    /\ config = DefaultConfiguration
    /\ isRunning = FALSE
    /\ shouldStop = FALSE
    /\ currentPopulation = NoPopulation
    /\ currentCycle = Undefined
    /\ history = EmptyHistory
    /\ calls = [c \in Callers |-> IdleCall]
    /\ lastResult = NoResult
    /\ stopper = "idle"
    /\ evolutionTimer = 0
    /\ timers = {}
    /\ nextTimer = 1
    /\ autoInterval = FALSE
    /\ nextAgentId = 1
    /\ archive = EmptyArchive
    /\ store = DefaultStore
    /\ committedPopulation = NoPopulation
    /\ searchResult = NoSearch
    /\ selection = NoSelection
    /\ weights = DefaultWeights
    /\ evaluations = NoEvaluations
    /\ memberFitness = NoFitness
    /\ returned = NoReturn
    /\ sink = "working"

(***************************************************************************)
(* Activation and deactivation of the extension.                           *)
(***************************************************************************)
\* the evolution section a session can run with: the defaults, with the
\* settings a user changed
HighElitismConfiguration ==
    [DefaultConfiguration EXCEPT !.elitismRate = HighElitismRate, !.selectionStrategy = "rank"]

DisabledConfiguration ==
    [DefaultConfiguration EXCEPT !.enabled = FALSE, !.autoEvolve = FALSE,
                                 !.selectionStrategy = "roulette-wheel"]

\* the fitness values createInitialFitness draws for n members
FitnessDraws(n) == {[k \in 1..n |-> v] : v \in InitialFitnessValues}

\* evaluatePopulation run to its end: member k gets the score ev[k]
EvaluateAll(pop, ev) ==
    LET agents == [k \in 1..Len(pop.agents) |-> [pop.agents[k] EXCEPT !.fitness = ev[k]]]
    IN  [pop EXCEPT !.agents = agents, !.statistics = calculateStatistics(agents)]

\* activate() up to the construction of the engine: the collector is
\* constructed if telemetry is enabled, and the engine and its components
\* get it, or undefined
Activate(telemetry) ==
    /\ lifecycle = "inactive"
    /\ session = 0
    /\ evaluations = NoEvaluations
    /\ returned = NoReturn
    /\ sink # telemetry
    /\ sink' = telemetry
    /\ UNCHANGED <<returned, engineState, archive, store, searchResult, selection, weights,
                   evaluations, memberFitness>>

\* initialize() with a collector that throws: the first evaluate of
\* createInitialPopulation raises, initialize logs and rethrows, and
\* activate() fails (the engine is dropped)
InitializeFails ==
    /\ lifecycle = "inactive"
    /\ SinkThrows(sink)
    /\ returned = NoReturn
    /\ returned' = [call |-> "initialize", status |-> "raised"]
    /\ UNCHANGED <<sink, engineState, archive, store, searchResult, selection, weights,
                   evaluations, memberFitness>>

\* activate(): a new engine is constructed and initialize() runs to its end
\* before any command is registered: loadHistory, archiveManager.initialize,
\* createInitialPopulation with its first evaluation, startAutoEvolution
Initialize(cfg) ==
    /\ lifecycle = "inactive"
    /\ ~SinkThrows(sink)
    /\ session < MaxSessions
    /\ session' = session + 1
    /\ lifecycle' = "active"
    /\ config' = cfg
    /\ history' = store.evolutionHistory
    /\ archive' = loadArchive(store.archiveData)
    /\ \E fit \in FitnessDraws(cfg.populationSize) :
       \E ev \in [1..cfg.populationSize -> EvalWithMethods] :
          currentPopulation' =
              EvaluateAll(createInitialPopulation(cfg.populationSize, nextAgentId, fit), ev)
    /\ committedPopulation' = currentPopulation'
    /\ nextAgentId' = nextAgentId + cfg.populationSize
    /\ autoInterval' = cfg.autoEvolve
    /\ weights' = DefaultWeights
    /\ UNCHANGED <<isRunning, shouldStop, currentCycle, calls, lastResult, stopper,
                   evolutionTimer, timers, nextTimer, store, searchResult, selection,
                   evaluations, memberFitness, directVars>>

\* the catch of loadHistory and of loadArchive: globalState.get threw, the
\* error is logged, and the history and the archive stay as constructed
OnLoadError == [evolutionHistory |-> EmptyHistory, archive |-> EmptyArchive]

\* activate() with a globalState whose get throws: initialize() runs to its
\* end as it does otherwise
InitializeLoadFails(cfg) ==
    /\ lifecycle = "inactive"
    /\ ~SinkThrows(sink)
    /\ session < MaxSessions
    /\ session' = session + 1
    /\ lifecycle' = "active"
    /\ config' = cfg
    /\ history' = OnLoadError.evolutionHistory
    /\ archive' = OnLoadError.archive
    /\ \E fit \in FitnessDraws(cfg.populationSize) :
       \E ev \in [1..cfg.populationSize -> EvalWithMethods] :
          currentPopulation' =
              EvaluateAll(createInitialPopulation(cfg.populationSize, nextAgentId, fit), ev)
    /\ committedPopulation' = currentPopulation'
    /\ nextAgentId' = nextAgentId + cfg.populationSize
    /\ autoInterval' = cfg.autoEvolve
    /\ weights' = DefaultWeights
    /\ returned' = [call |-> "initialize", status |-> "returned", loaded |-> FALSE]
    /\ UNCHANGED <<isRunning, shouldStop, currentCycle, calls, lastResult, stopper,
                   evolutionTimer, timers, nextTimer, store, searchResult, selection,
                   evaluations, memberFitness, sink>>

\* deactivate() while no cycle runs: shutdown() finds isRunning false, clears
\* the timer, saves the history and the archive; the extension host then
\* ends and with it everything held in memory
Shutdown ==
    /\ lifecycle = "active"
    /\ ~isRunning
    /\ stopper = "idle"
    /\ store' = [archiveData |-> saveArchive(archive), evolutionHistory |-> history]
    /\ lifecycle' = "inactive"
    /\ isRunning' = FALSE
    /\ shouldStop' = FALSE
    /\ currentPopulation' = NoPopulation
    /\ currentCycle' = Undefined
    /\ history' = EmptyHistory
    /\ calls' = [c \in Callers |-> IdleCall]
    /\ lastResult' = NoResult
    /\ stopper' = "idle"
    /\ evolutionTimer' = 0
    /\ timers' = {}
    /\ nextTimer' = 1
    /\ autoInterval' = FALSE
    /\ archive' = EmptyArchive
    /\ committedPopulation' = NoPopulation
    /\ searchResult' = NoSearch
    /\ selection' = NoSelection
    /\ weights' = DefaultWeights
    /\ evaluations' = NoEvaluations
    /\ memberFitness' = NoFitness
    /\ returned' = NoReturn
    /\ UNCHANGED <<session, config, nextAgentId, sink>>

(***************************************************************************)
(* evolve() and runEvolutionCycle().                                       *)
(***************************************************************************)
\* a change made in place to the object currentPopulation refers to is seen
\* through every cycle.population that is the same object
InPlace(cs, pop) ==
    [c \in Callers |-> IF cs[c].alias THEN [cs[c] EXCEPT !.cycle.population = pop] ELSE cs[c]]

\* this.currentPopulation is bound to a new object
Rebound(cs) == [c \in Callers |-> [cs[c] EXCEPT !.alias = FALSE]]

\* the head of the loop body: phase Evaluation, and evaluatePopulation up to
\* its first await (with no member it computes the statistics and returns)
BeginGeneration(call, pop) ==
    IF Len(pop.agents) = 0
    THEN [call |-> [call EXCEPT !.cycle = SetPhase(call.cycle, "evaluation"),
                                !.pc = "selection"],
          pop |-> [pop EXCEPT !.statistics = calculateStatistics(pop.agents)],
          done |-> FALSE]
    ELSE [call |-> [call EXCEPT !.cycle = SetPhase(call.cycle, "evaluation"),
                                !.pc = "evaluation", !.evalIndex = 1],
          pop |-> pop,
          done |-> FALSE]

\* after the loop: phase Completed, endTime stamped, the cycle is returned
\* to evolve()
CompleteCycle(call, pop) ==
    [call |-> [call EXCEPT !.cycle = [SetPhase(call.cycle, "completed") EXCEPT !.endTime = TRUE],
                           !.pc = "archive", !.archived = 0],
     pop |-> pop,
     done |-> TRUE]

\* (variants of the loop condition, for comparison: the comparison reversed;
\* the stop flag not read)
ReversedLoopCondition(call, stop) == call.generation > call.maxGenerations /\ ~stop

LoopConditionWithoutStop(call, stop) == call.generation < call.maxGenerations

\* the loop condition: generation < maxGenerations && !this.shouldStop
LoopCondition(call, stop) == call.generation < call.maxGenerations /\ ~stop

LoopHead(call, pop, stop) ==
    IF LoopCondition(call, stop) THEN BeginGeneration(call, pop) ELSE CompleteCycle(call, pop)

\* (variant for comparison: evolve without its guard)
NoGuard == FALSE

\* if (this.isRunning) throw new Error('Evolution is already running')
AlreadyRunning == isRunning

\* the cycle object runEvolutionCycle creates (the configuration the method
\* reads at its start is kept in the call: config)
NewCycle ==
    [generation |-> history.totalGenerations + 1, phase |-> "initialization",
     prevPhase |-> "none", endTime |-> FALSE, population |-> currentPopulation]

\* evolve(generations) past its check, up to the first await
StartCycle(c, generations) ==
    LET call0 == [IdleCall EXCEPT !.maxGenerations = generations, !.cycle = NewCycle,
                                  !.alias = TRUE, !.config = config]
        r == LoopHead(call0, currentPopulation, FALSE)
    IN  /\ isRunning' = TRUE
        /\ shouldStop' = FALSE
        /\ currentPopulation' = r.pop
        /\ calls' = InPlace([calls EXCEPT ![c] = r.call], r.pop)
        /\ currentCycle' = IF r.done THEN Undefined ELSE c
        /\ UNCHANGED <<history, lastResult>>

EvolveCall(c, generations) ==
    /\ calls[c].pc = "idle"
    /\ IF AlreadyRunning
       THEN /\ lastResult' = [result |-> "AlreadyRunning", endTime |-> FALSE]
            /\ UNCHANGED engineVars
       ELSE StartCycle(c, generations)

\* (variant for comparison: evolve without its finally, the flag stays set)
EvolveFailsFlagKept(c, cs) ==
    /\ isRunning' = TRUE
    /\ calls' = [cs EXCEPT ![c] = IdleCall]
    /\ lastResult' = [result |-> "Error", endTime |-> cs[c].cycle.endTime]

\* evolve()'s finally after an error: the flag is released, the error goes
\* to the caller
EvolveFails(c, cs) ==
    /\ isRunning' = FALSE
    /\ calls' = [cs EXCEPT ![c] = IdleCall]
    /\ lastResult' = [result |-> "Error", endTime |-> cs[c].cycle.endTime]

\* evaluatePopulation: evaluate of member evalIndex returned; its score is
\* stored; after the last member the statistics are recomputed
EvaluationStep(c) ==
    LET call == calls[c]
        i == call.evalIndex
    IN  /\ call.pc = "evaluation"
        /\ IF i <= Len(currentPopulation.agents)
           THEN \E f \in evaluate(currentPopulation.agents[i].agent) :
                  LET scored == [currentPopulation EXCEPT !.agents[i].fitness = f]
                      last == i = Len(currentPopulation.agents)
                      pop == IF last
                             THEN [scored EXCEPT !.statistics = calculateStatistics(scored.agents)]
                             ELSE scored
                      next == IF last THEN [call EXCEPT !.pc = "selection"]
                              ELSE [call EXCEPT !.evalIndex = i + 1]
                  IN  /\ currentPopulation' = pop
                      /\ calls' = InPlace([calls EXCEPT ![c] = next], pop)
           ELSE /\ currentPopulation' =
                      [currentPopulation EXCEPT
                          !.statistics = calculateStatistics(currentPopulation.agents)]
                /\ calls' = InPlace([calls EXCEPT ![c].pc = "selection"], currentPopulation')
        /\ UNCHANGED <<componentVars, session, lifecycle, config, isRunning, shouldStop, currentCycle, history,
                       lastResult, stopper, timerVars, nextAgentId, archive, store,
                       committedPopulation>>

\* phase Selection: selectParents
SelectionStep(c) ==
    LET call == calls[c]
        numParents == FloorRate(Len(currentPopulation.agents), config.crossoverRate)
    IN  /\ call.pc = "selection"
        /\ \E parents \in select(currentPopulation.agents, numParents, config.selectionStrategy) :
              calls' = [calls EXCEPT ![c] = [call EXCEPT !.cycle = SetPhase(call.cycle, "selection"),
                                                         !.parents = parents,
                                                         !.pc = "crossover"]]
        /\ UNCHANGED <<componentVars, session, lifecycle, config, isRunning, shouldStop, currentPopulation,
                       currentCycle, history, lastResult, stopper, timerVars, nextAgentId,
                       archive, store, committedPopulation>>

\* phase Crossover: performCrossover
CrossoverStep(c) ==
    LET call == calls[c]
        offspring == performCrossover(call.parents, nextAgentId)
    IN  /\ call.pc = "crossover"
        /\ calls' = [calls EXCEPT ![c] = [call EXCEPT !.cycle = SetPhase(call.cycle, "crossover"),
                                                     !.parents = <<>>,
                                                     !.offspring = offspring,
                                                     !.pc = "mutation"]]
        /\ nextAgentId' = nextAgentId + Len(offspring)
        /\ UNCHANGED <<componentVars, session, lifecycle, config, isRunning, shouldStop, currentPopulation,
                       currentCycle, history, lastResult, stopper, timerVars, archive, store,
                       committedPopulation>>

\* (variant for comparison: a failed mutation is counted as successful)
CountAll(outcome, n) == n

\* the mutate calls of performMutation that returned
NumSucceeded(outcome, n) == Cardinality({i \in 1..n : outcome[i] # "failed"})

\* phase Mutation: performMutation, outcomes being what mutate can do with
\* one agent
PerformMutation(c, outcomes) ==
    LET call == calls[c]
        n == Len(call.offspring)
    IN  /\ call.pc = "mutation"
        /\ \E outcome \in [1..n -> outcomes] :
              /\ calls' = [calls EXCEPT ![c] =
                             [call EXCEPT !.cycle = SetPhase(call.cycle, "mutation"),
                                          !.offspring = MutatedAgents(call.offspring, outcome,
                                                                      nextAgentId),
                                          !.mutation = [offspring |-> call.offspring,
                                                        outcome |-> outcome,
                                                        before |-> history],
                                          !.pc = "replacement"]]
              /\ nextAgentId' = nextAgentId + NumMutated(outcome, n)
              /\ history' = [history EXCEPT !.totalMutations = @ + n,
                                            !.successfulMutations = @ + NumSucceeded(outcome, n)]
        /\ UNCHANGED <<componentVars, session, lifecycle, config, isRunning, shouldStop, currentPopulation,
                       currentCycle, lastResult, stopper, timerVars, archive, store,
                       committedPopulation>>

\* the Mutation phase with the MutationGenerator of the engine, whose mutate
\* does not throw
MutationStep(c) == PerformMutation(c, MutationOutcomes(config.mutationRate))

\* the Mutation phase with a generator whose mutate can throw
MutationStepOrFailure(c) == PerformMutation(c, MutationOutcomesOrFailure(config.mutationRate))

\* phase Replacement, replacePopulation up to its await: the members are
\* sorted in place, the elites and the new agents are combined and cut to
\* config.populationSize (kept in offspring until the new population is bound)
ReplacementStep(c) ==
    LET call == calls[c]
        sorted == sortByFitnessDesc(currentPopulation.agents)
        elites == selectElites(currentPopulation.agents, config.elitismRate)
        combinedAgents == elites \o call.offspring
        pop == [currentPopulation EXCEPT !.agents = sorted]
        next == [call EXCEPT !.cycle = SetPhase(call.cycle, "replacement"),
                             !.offspring = slice(combinedAgents, 0, config.populationSize),
                             !.mutation = NoMutation,
                             !.pc = "replaced"]
    IN  /\ call.pc = "replacement"
        /\ currentPopulation' = pop
        /\ calls' = InPlace([calls EXCEPT ![c] = next], pop)
        /\ UNCHANGED <<componentVars, session, lifecycle, config, isRunning, shouldStop, currentCycle, history,
                       lastResult, stopper, timerVars, nextAgentId, archive, store,
                       committedPopulation>>

\* calculateVariance of the averageFitness values, times n * n (exact)
calculateVariance(values) ==
    LET n == Len(values)
        squares == [i \in 1..n |-> values[i] * values[i]]
    IN  n * SumSeq(squares) - SumSeq(values) * SumSeq(values)

\* the unit calculateVariance's result is counted in, as a fraction of 1:
\* n * n * (10 * AvgScale)^2
VarianceUnit(n) == n * n * (10 * AvgScale) * (10 * AvgScale)

\* threshold values are counted in millionths
ThresholdUnit == 1000 * 1000

\* variance < config.convergenceThreshold; a number is never less than
\* undefined
BelowThreshold(variance, n, threshold) ==
    IF threshold = Undefined THEN FALSE
    ELSE variance * ThresholdUnit < threshold * VarianceUnit(n)

RecentAverages(h) ==
    LET recentCycles == SubSeq(h.cycles, Len(h.cycles) - ConvergenceWindow + 1, Len(h.cycles))
    IN  [i \in 1..Len(recentCycles) |-> recentCycles[i].population.statistics.averageFitness]

hasConverged(h, cfg) ==
    IF Len(h.cycles) < ConvergenceWindow THEN FALSE
    ELSE BelowThreshold(calculateVariance(RecentAverages(h)), ConvergenceWindow,
                        cfg.convergenceThreshold)

\* createPopulation returned: the new population is bound; updateCycleResults
\* (random counts, not modelled); the convergence check; the loop's
\* increment and condition; the next generation's start or the cycle's end
ReplacedStep(c) ==
    LET call == calls[c]
    IN  /\ call.pc = "replaced"
        /\ \E fit \in FitnessDraws(Len(call.offspring)) :
              LET population == createPopulation(call.offspring,
                                                 currentPopulation.generation + 1, fit)
                  done == [call EXCEPT !.offspring = <<>>]
                  r == IF hasConverged(history, config)
                       THEN CompleteCycle(done, population)
                       ELSE LoopHead([done EXCEPT !.generation = @ + 1], population, shouldStop)
              IN  /\ currentPopulation' = r.pop
                  /\ committedPopulation' = population
                  /\ calls' = Rebound([calls EXCEPT ![c] = r.call])
                  /\ currentCycle' = IF r.done THEN Undefined ELSE currentCycle
        /\ UNCHANGED <<componentVars, session, lifecycle, config, isRunning, shouldStop, history, lastResult,
                       stopper, timerVars, nextAgentId, archive, store>>

\* The awaits of a generation at which an error of a collaborator is let
\* arrive: those before the generation has created an agent.
GenerationPcs == {"evaluation", "selection", "crossover"}

\* an error thrown inside a generation by a collaborator (the logger, the
\* configuration, telemetry): runEvolutionCycle logs and rethrows it and
\* clears currentCycle, evolve releases the flag

GenerationError(c) ==
    /\ calls[c].pc \in GenerationPcs
    /\ EvolveFails(c, calls)
    /\ currentCycle' = Undefined
    /\ UNCHANGED <<componentVars, session, lifecycle, config, shouldStop, currentPopulation, history, stopper,
                   timerVars, nextAgentId, archive, store, committedPopulation>>

\* archiveBestAgents: the members of cycle.population, sorted in place, and
\* the top 5 of them
BestAgents(cycle) == slice(sortByFitnessDesc(cycle.population.agents), 0, ArchiveTop)

SortedCycle(cycle) ==
    [cycle EXCEPT !.population.agents = sortByFitnessDesc(cycle.population.agents)]

\* one archiveAgent call of archiveBestAgents.  agent.serialize() of an
\* object without the method throws a TypeError, which ends evolve().
ArchiveStep(c) ==
    LET call == calls[c]
        bestAgents == BestAgents(call.cycle)
        member == bestAgents[call.archived + 1]
        sorted == [calls EXCEPT ![c].cycle = SortedCycle(call.cycle)]
        pop == IF call.alias THEN sorted[c].cycle.population ELSE currentPopulation
    IN  /\ call.pc = "archive"
        /\ call.archived < Len(bestAgents)
        /\ currentPopulation' = pop
        /\ IF member.agent.hasMethods
           THEN /\ archive' = archiveAgent(archive, member.agent, member.fitness,
                                           call.cycle.generation)
                /\ store' = [store EXCEPT !.archiveData = saveArchive(archive')]
                /\ calls' = InPlace([sorted EXCEPT ![c].archived = @ + 1], pop)
                /\ UNCHANGED <<isRunning, lastResult>>
           ELSE /\ EvolveFails(c, InPlace(sorted, pop))
                /\ UNCHANGED <<archive, store>>
        /\ UNCHANGED <<componentVars, session, lifecycle, config, shouldStop, currentCycle, history, stopper,
                       timerVars, nextAgentId, committedPopulation>>

\* evolve() after archiveBestAgents: the cycle is appended to the history,
\* totalGenerations grows by the requested number, the cycle is returned
EvolveFinish(c) ==
    LET call == calls[c]
        cycle == SortedCycle(call.cycle)
        pop == IF call.alias THEN cycle.population ELSE currentPopulation
    IN  /\ call.pc = "archive"
        /\ call.archived >= Len(BestAgents(call.cycle))
        /\ history' = [history EXCEPT !.cycles = Append(@, cycle),
                                      !.totalGenerations = @ + call.maxGenerations]
        /\ currentPopulation' = pop
        /\ calls' = InPlace([calls EXCEPT ![c] = IdleCall], pop)
        /\ isRunning' = FALSE
        /\ lastResult' = [result |-> "Completed", endTime |-> cycle.endTime]
        /\ UNCHANGED <<componentVars, session, lifecycle, config, shouldStop, currentCycle, stopper, timerVars,
                       nextAgentId, archive, store, committedPopulation>>

(***************************************************************************)
(* stopEvolution().                                                        *)
(***************************************************************************)
\* stopEvolution() up to its first await: it returns at once when no cycle
\* runs, else it sets shouldStop and starts polling isRunning
StopEvolution ==
    /\ lifecycle = "active"
    /\ stopper = "idle"
    /\ IF ~isRunning
       THEN UNCHANGED <<shouldStop, stopper>>
       ELSE /\ shouldStop' = TRUE
            /\ stopper' = "waiting"
    /\ UNCHANGED <<componentVars, session, lifecycle, config, isRunning, currentPopulation, currentCycle,
                   history, calls, lastResult, timerVars, nextAgentId, archive, store,
                   committedPopulation>>

\* a poll of stopEvolution (every 100 ms) that finds isRunning false: the
\* call returns.  A poll that finds it true changes nothing.
StopReturn ==
    /\ stopper = "waiting"
    /\ ~isRunning
    /\ stopper' = "idle"
    /\ UNCHANGED <<componentVars, session, lifecycle, config, engineVars, lastResult, timerVars, nextAgentId,
                   archive, store, committedPopulation>>

(***************************************************************************)
(* scheduleEvolution() and the callbacks.                                  *)
(***************************************************************************)
Delay(priority) ==
    CASE priority = "high" -> DelayHigh
      [] priority = "medium" -> DelayMedium
      [] priority = "low" -> DelayLow

\* (variant for comparison: the pending timer is not cleared)
KeepPending(pending, handle) == pending

\* if (this.evolutionTimer) clearTimeout(this.evolutionTimer)
clearTimeout(pending, handle) == {t \in pending : t.id # handle}

scheduleEvolution(priority) ==
    /\ lifecycle = "active"
    /\ IF ~config.enabled
       THEN UNCHANGED timerVars
       ELSE /\ nextTimer <= MaxTimers
            /\ timers' = clearTimeout(timers, evolutionTimer)
                            \cup {[id |-> nextTimer, delay |-> Delay(priority)]}
            /\ evolutionTimer' = nextTimer
            /\ nextTimer' = nextTimer + 1
            /\ UNCHANGED autoInterval
    /\ UNCHANGED <<componentVars, session, lifecycle, config, engineVars, lastResult, stopper, nextAgentId,
                   archive, store, committedPopulation>>

\* the callback of the setTimeout: if (!this.isRunning) this.evolve(1)
TimerFires(t, budget) ==
    /\ t \in timers
    /\ timers' = timers \ {t}
    /\ IF ~isRunning
       THEN budget /\ EvolveCall("timer", 1)
       ELSE UNCHANGED <<engineVars, lastResult>>
    /\ UNCHANGED <<componentVars, session, lifecycle, config, stopper, evolutionTimer, nextTimer, autoInterval,
                   nextAgentId, archive, store, committedPopulation>>

\* the callback of startAutoEvolution's setInterval (every 60 s) when it
\* starts a cycle: if (!this.isRunning && config.autoEvolve) this.evolve(1),
\* with the config initialize() read.  With a cycle running it does nothing.
AutoEvolution ==
    /\ autoInterval
    /\ ~isRunning
    /\ EvolveCall("auto", 1)
    /\ UNCHANGED <<componentVars, session, lifecycle, config, stopper, timerVars, nextAgentId, archive, store,
                   committedPopulation>>

\* shutdown() of an engine that stays in memory, called while no cycle
\* runs: stopEvolution() returns at once, the pending timer is cleared and
\* saveHistory is awaited.  The handle of startAutoEvolution's setInterval
\* was never kept, so nothing clears the interval.
ShutdownBegin ==
    /\ lifecycle = "active"
    /\ ~isRunning
    /\ stopper = "idle"
    /\ lifecycle' = "shuttingDown"
    /\ timers' = clearTimeout(timers, evolutionTimer)
    /\ store' = [store EXCEPT !.evolutionHistory = history]
    /\ UNCHANGED <<componentVars, session, config, engineVars, lastResult, stopper, evolutionTimer, nextTimer,
                   autoInterval, nextAgentId, archive, committedPopulation>>

\* saveHistory has returned: the status bar item and the archive manager are
\* disposed (the archive is saved) and shutdown() returns
ShutdownReturn ==
    /\ lifecycle = "shuttingDown"
    /\ lifecycle' = "shutdown"
    /\ store' = [store EXCEPT !.archiveData = saveArchive(archive)]
    /\ UNCHANGED <<componentVars, session, config, engineVars, lastResult, stopper, timerVars, nextAgentId,
                   archive, committedPopulation>>

\* a direct call of evolve(generations): the dgm.evolve command, or any
\* other holder of the engine
Evolve(c, generations) ==
    /\ lifecycle = "active"
    /\ EvolveCall(c, generations)
    /\ UNCHANGED <<componentVars, session, lifecycle, config, stopper, timerVars, nextAgentId, archive, store,
                   committedPopulation>>

(***************************************************************************)
(* Calls on the ArchiveManager of the session: archiveAgent, search,       *)
(* getBestAgents, and buildLineageTree over its entries.                   *)
(***************************************************************************)
\* `${this.id}_evolved_${Date.now()}`: an id no other agent has
generateEvolvedId(id) == 1000 + id

\* BaseAgent.evolve(mutation): a new BaseAgent whose metadata names this one
\* as its parent, a generation later
evolveAgent(agent) ==
    [id |-> generateEvolvedId(agent.id), type |-> agent.type, hasMethods |-> TRUE,
     generation |-> agent.generation + 1, parentId |-> agent.id,
     version |-> agent.version + 1, capabilities |-> agent.capabilities]

\* the agents a caller archives: the members of the population and the
\* agents they evolve into
Archivable ==
    {currentPopulation.agents[k].agent : k \in 1..Len(currentPopulation.agents)}
        \cup {evolveAgent(currentPopulation.agents[k].agent) :
                 k \in 1..Len(currentPopulation.agents)}

\* the fitness.overall values given to archiveAgent, and the ends of the
\* fitness ranges asked for (tenths)
ArchivedFitnessValues == {3, 7}
FitnessRangeEnds == {3, 5, 7}

\* the queries a caller makes: a fitness range (sorted either way, with the
\* default limit or a limit of one), an agent type, a tag
RangeQueries ==
    {[EmptyQuery EXCEPT !.minFitness = <<a>>, !.maxFitness = <<b>>, !.sortBy = sortBy, !.limit = limit] :
        a \in FitnessRangeEnds, b \in FitnessRangeEnds,
        sortBy \in {Undefined, "fitness-asc"}, limit \in {0, 1}}

TypeQueries == {[EmptyQuery EXCEPT !.agentType = AgentTypes[t]] : t \in 1..3}

TagQueries ==
    {[EmptyQuery EXCEPT !.tags = <<tag>>] : tag \in {TypeTag(AgentTypes[1]), ReasonTag(1)}}

Queries == RangeQueries \cup TypeQueries \cup TagQueries

\* the queries of a caller who pages through the matches: limit and offset
\* are given as numbers (given names them; search does not read it), with
\* or without a lower end of the fitness range, sorted either way
PagedQueries ==
    {[given |-> <<"limit", "offset">>]
        @@ [EmptyQuery EXCEPT !.limit = limit, !.offset = offset, !.minFitness = minFitness,
                              !.sortBy = sortBy] :
        limit \in 0..MaxPage, offset \in 0..MaxPage,
        minFitness \in {<<>>} \cup {<<a>> : a \in ArchivedFitnessValues},
        sortBy \in {Undefined, "fitness-asc"}}

\* archiveAgent(agent, fitness, reason) of an agent that can serialize
\* itself, with its saveArchive
ArchiveAgent(agent, fitness, reason) ==
    /\ lifecycle = "active"
    /\ Len(archive.entries) < MaxEntries
    /\ agent.hasMethods
    /\ archive' = archiveAgent(archive, agent, fitness, reason)
    /\ store' = [store EXCEPT !.archiveData = saveArchive(archive')]
    /\ UNCHANGED <<directVars, engineState, componentVars>>

\* (variant for comparison: the entry is taken out again when the save fails)
RollBack(updated, before) == before

\* the catch of saveArchive: globalState.update threw, the error is logged;
\* the archive in memory stays as archiveAgent updated it
OnSaveError(updated, before) == updated

\* archiveAgent(agent, fitness, reason) with a globalState whose update
\* throws: the entry is returned
ArchiveAgentSaveFails(agent, fitness, reason) ==
    /\ lifecycle = "active"
    /\ Len(archive.entries) < MaxEntries
    /\ agent.hasMethods
    /\ archive' = OnSaveError(archiveAgent(archive, agent, fitness, reason), archive)
    /\ returned' = [call |-> "archiveAgent", saved |-> FALSE,
                    entry |-> NewEntry(FreshEntryId(archive.entries), agent, fitness, reason)]
    /\ UNCHANGED <<sink, engineState, store, searchResult, selection, weights, evaluations,
                   memberFitness>>

Search(query) ==
    /\ lifecycle = "active"
    /\ searchResult' = search(archive, query)
    /\ UNCHANGED <<directVars, engineState, archive, store, selection, weights, evaluations,
                   memberFitness>>

GetBestAgents(limit) ==
    /\ lifecycle = "active"
    /\ searchResult' = getBestAgents(archive, limit)
    /\ UNCHANGED <<directVars, engineState, archive, store, selection, weights, evaluations,
                   memberFitness>>

BuildLineageTree ==
    /\ lifecycle = "active"
    /\ searchResult' = buildLineageTree(archive.entries)
    /\ UNCHANGED <<directVars, engineState, archive, store, selection, weights, evaluations,
                   memberFitness>>

\* the parentId of an entry of a direct buildLineageTree call: none, the id
\* of an entry of the list, or an id that no entry of the list has
DanglingParentId == 9
ParentIds == 0..MaxLineage \cup {DanglingParentId}

\* the lists of entries a direct buildLineageTree call is given: the k-th
\* entry has id k
LineageEntries ==
    UNION {{[k \in 1..n |->
                [parentId |-> parent[k]]
                    @@ NewEntry(k, [id |-> k, type |-> AgentTypes[1]], fitness[k], 1)] :
              parent \in [1..n -> ParentIds], fitness \in [1..n -> ArchivedFitnessValues]} :
           n \in 0..MaxLineage}

\* a direct call of buildLineageTree
BuildLineageTreeOf(entries) ==
    /\ returned = NoReturn
    /\ returned' = [call |-> "buildLineageTree", entries |-> entries,
                    tree |-> buildLineageTree(entries)]
    /\ UNCHANGED <<sink, engineState, archive, store, searchResult, selection, weights,
                   evaluations, memberFitness>>

\* the members replacePopulation finds in the population: the ids are
\* random strings, so the members stand in any order of their ids
ElitePopulations ==
    UNION {{[k \in 1..n |-> [agent |-> BaseAgent(id[k], AgentTypes[k]), fitness |-> fit[k],
                             age |-> 0, isElite |-> FALSE]] :
               id \in {f \in [1..n -> 1..n] : \A i, j \in 1..n : f[i] = f[j] => i = j},
               fit \in [1..n -> EvalWithMethods]} : n \in 0..MaxEliteSize}

\* the elitism rates configured: the default, a half, all
ElitismRates == {DefaultElitismRate, HighElitismRate, 10}

\* the elites replacePopulation takes of the members
SelectElites(members, elitismRate) ==
    /\ returned = NoReturn
    /\ returned' = [call |-> "selectElites", members |-> members,
                    elitismRate |-> elitismRate,
                    elites |-> selectElites(members, elitismRate)]
    /\ UNCHANGED <<sink, engineState, archive, store, searchResult, selection, weights,
                   evaluations, memberFitness>>

(***************************************************************************)
(* Calls of SelectionStrategy.select.                                      *)
(***************************************************************************)
\* fitness.overall of the members a select call is given (tenths)
SelectFitnessValues == {0, 5}

\* the populations a select call is given: member k holds agent k
SelectPopulations ==
    UNION {{[k \in 1..n |-> [agent |-> BaseAgent(k, AgentTypes[k]), fitness |-> fit[k],
                             age |-> 0, isElite |-> FALSE]] :
               fit \in SeqsOver(SelectFitnessValues, n)} : n \in 0..MaxSelectSize}

Select(agents, count, strategy) ==
    /\ selection' \in SelectOutcomes(agents, count, strategy)
    /\ UNCHANGED <<directVars, engineState, archive, store, searchResult, weights, evaluations,
                   memberFitness>>

(***************************************************************************)
(* Calls of FitnessEvaluator (evaluateBatch, with the evaluate call of     *)
(* each agent, and setFitnessWeights) and of                               *)
(* PopulationManager.createInitialFitness.                                 *)
(***************************************************************************)
\* what execute does over the five tasks: any mix of success, failure and
\* throwing, or one task that is never settled among successes
ExecuteBehaviours ==
    [1..5 -> {"success", "failure", "throws"}]
        \cup {[t \in 1..5 |-> IF t = p THEN "never" ELSE "success"] : p \in 1..5}

\* the agents given to evaluate alone
EvaluatedAgents ==
    {[id |-> 1, execute |-> e, hasState |-> h, fitness |-> 5 * Tenth] :
        e \in ExecuteBehaviours, h \in BOOLEAN}

\* the agents given to evaluateBatch with others: a BaseAgent, one whose
\* first task is never settled, one that throws on every task
BatchAgents ==
    {[id |-> 1, execute |-> [t \in 1..5 |-> o], hasState |-> TRUE, fitness |-> 5 * Tenth] :
        o \in {"success", "throws"}}
      \cup {[id |-> 1, execute |-> [t \in 1..5 |-> IF t = 1 THEN "never" ELSE "success"],
             hasState |-> TRUE, fitness |-> 5 * Tenth]}

\* the k-th agent of such a batch has the id k
Batches ==
    {<<agent>> : agent \in EvaluatedAgents}
        \cup UNION {{[k \in 1..n |-> [f[k] EXCEPT !.id = k]] : f \in [1..n -> BatchAgents]} :
                       n \in 2..MaxBatch}

\* the longer inputs of evaluateBatch: BaseAgents, with ids all different or
\* with ids that come back every third agent
LongBatches ==
    {[k \in 1..n |-> [id |-> IF distinct THEN k ELSE 1 + (k % 3),
                       execute |-> [t \in 1..5 |-> "success"], hasState |-> TRUE,
                       fitness |-> 5 * Tenth]] :
        n \in 0..MaxBatchAgents, distinct \in BOOLEAN}

\* what endTrace measures for the performance task (ms), and what
\* getSystemMetrics reports: memory.percentage and cpu.usage (seconds)
ExecutionTimes == {0, 6000}
MemoryPercentages == {80}
CpuUsages == {20, 400}

\* the weights a caller passes to setFitnessWeights: one weight, or all five
WeightUpdates ==
    {[w \in {"codeQuality"} |-> 100],
     [codeQuality |-> 20, performance |-> 20, reliability |-> 20, userSatisfaction |-> 20,
      resourceEfficiency |-> 20]}

\* the draws of createInitialFitness
InitialOveralls == {3 * Tenth, 5 * Tenth, 7 * Tenth}
Jitters == {0 - Tenth, 0, Tenth}

\* const batchSize = 5
batchSize == 5

\* (variant for comparison: the whole rest of the input is one batch)
restOfInput(agents, i) == slice(agents, i, Len(agents))

\* agents.slice(i, i + batchSize)
batch(agents, i) == slice(agents, i, i + batchSize)

\* batch.map(agent => this.evaluate(agent)...): an evaluate call is started
\* for each agent of the batch
startEvaluations(agents) ==
    [k \in 1..Len(agents) |->
        [agent |-> agents[k], pc |-> "running", result |-> [status |-> "none"]]]

\* results.set(key, value) on a Map
MapSet(map, key, value) ==
    [x \in DOMAIN map \cup {key} |-> IF x = key THEN value ELSE map[x]]

\* batchResults.forEach(({ agent, fitness }) => results.set(agent.id, fitness))
\* over the calls first..last, in the order of the input
RECURSIVE setResults(_, _, _, _)
setResults(results, batchResults, first, last) ==
    IF first > last THEN results
    ELSE setResults(MapSet(results, batchResults[first].agent.id,
                           batchResults[first].result.fitness),
                    batchResults, first + 1, last)

\* evaluateBatch(agents) up to its first await: the evaluate calls of the
\* first batch are started; with no agent the empty map is returned
EvaluateBatch(agents) ==
    /\ evaluations = NoEvaluations
    /\ evaluations' = [batch |-> IF Len(agents) = 0 THEN "returned" ELSE "awaiting",
                       agents |-> agents,
                       i |-> 0,
                       calls |-> startEvaluations(batch(agents, 0)),
                       results |-> <<>>]
    /\ UNCHANGED <<directVars, engineState, archive, store, searchResult, selection, weights,
                   memberFitness>>

\* the evaluate call of the i-th agent returns (or raises): the promise of
\* evaluateComponents has been settled
EvaluateReturns(i) ==
    /\ i \in 1..Len(evaluations.calls)
    /\ evaluations.calls[i].pc = "running"
    /\ \E executionTime \in ExecutionTimes : \E memoryPercentage \in MemoryPercentages :
       \E cpuUsage \in CpuUsages :
          /\ evaluateComponents(evaluations.calls[i].agent, executionTime, memoryPercentage,
                                cpuUsage).status # "pending"
          /\ evaluations' =
                [evaluations EXCEPT
                    !.calls[i].pc = "done",
                    !.calls[i].result = evaluateResult(evaluations.calls[i].agent, weights, sink,
                                                       executionTime, memoryPercentage,
                                                       cpuUsage)]
    /\ UNCHANGED <<directVars, engineState, archive, store, searchResult, selection, weights,
                   memberFitness>>

\* Promise.all of the current batch is settled: the scores are put in the
\* map, then evaluateBatch pauses before the next batch or returns the map;
\* or it rethrows what an evaluate call raised
BatchReturns ==
    /\ evaluations.batch = "awaiting"
    /\ \/ /\ \A k \in 1..Len(evaluations.calls) :
                /\ evaluations.calls[k].pc = "done"
                /\ evaluations.calls[k].result.status = "returned"
          /\ evaluations' =
                [evaluations EXCEPT
                    !.results = setResults(@, evaluations.calls, evaluations.i + 1,
                                           Len(evaluations.calls)),
                    !.batch = IF evaluations.i + batchSize < Len(evaluations.agents)
                              THEN "pausing" ELSE "returned"]
       \/ /\ \E k \in 1..Len(evaluations.calls) :
                /\ evaluations.calls[k].pc = "done"
                /\ evaluations.calls[k].result.status = "raised"
          /\ evaluations' = [evaluations EXCEPT !.batch = "rejected"]
    /\ UNCHANGED <<directVars, engineState, archive, store, searchResult, selection, weights,
                   memberFitness>>

\* the 100 ms between two batches are over: the evaluate calls of the next
\* batch are started
PauseEnds ==
    /\ evaluations.batch = "pausing"
    /\ evaluations' =
          [evaluations EXCEPT
              !.batch = "awaiting",
              !.i = @ + batchSize,
              !.calls = @ \o startEvaluations(batch(evaluations.agents,
                                                    evaluations.i + batchSize))]
    /\ UNCHANGED <<directVars, engineState, archive, store, searchResult, selection, weights,
                   memberFitness>>

\* Object.assign(this.weights, weights)
SetFitnessWeights(update) ==
    /\ weights' = [c \in DOMAIN weights |->
                      IF c \in DOMAIN update THEN update[c] ELSE weights[c]]
    /\ weights' # weights
    /\ UNCHANGED <<directVars, engineState, archive, store, searchResult, selection, evaluations,
                   memberFitness>>

\* a new member of a population is given its initial score
CreateInitialFitness(overall, jitter) ==
    /\ memberFitness = NoFitness
    /\ memberFitness' = createInitialFitness(overall, jitter)
    /\ UNCHANGED <<directVars, engineState, archive, store, searchResult, selection, weights,
                   evaluations>>

(***************************************************************************)
(* The configuration manager reloads the configuration when the settings   *)
(* change; getConfiguration() gives the reloaded one from then on.         *)
(***************************************************************************)
\* the settings a user changes to: every pair becomes a parent, or half of
\* the members are elites
ChangedConfigurations ==
    {[DefaultConfiguration EXCEPT !.crossoverRate = 10],
     [DefaultConfiguration EXCEPT !.elitismRate = HighElitismRate]}

\* handleConfigurationChange: this.config = this.loadConfiguration()
ConfigurationChanged(cfg) ==
    /\ lifecycle = "active"
    /\ config # cfg
    /\ config' = cfg
    /\ UNCHANGED <<session, lifecycle, engineVars, lastResult, stopper, timerVars,
                   nextAgentId, committedPopulation, archive, store, componentVars>>

(***************************************************************************)
(* The accessors of the engine.  A value that may be undefined is returned *)
(* as a sequence: empty for undefined.                                     *)
(***************************************************************************)
\* return this.currentPopulation
GetCurrentPopulation ==
    /\ lifecycle = "active"
    /\ returned' = [call |-> "getCurrentPopulation", value |-> currentPopulation]
    /\ UNCHANGED <<engineState, archive, store, searchResult, selection, weights,
                   evaluations, memberFitness, sink>>

\* return { ...this.history }
GetEvolutionHistory ==
    /\ lifecycle = "active"
    /\ returned' = [call |-> "getEvolutionHistory", value |-> history]
    /\ UNCHANGED <<engineState, archive, store, searchResult, selection, weights,
                   evaluations, memberFitness, sink>>

\* this.currentPopulation.agents.sort(...)[0].agent: Array.prototype.sort
\* sorts the array of the population in place
GetBestAgent ==
    LET sorted == sortByFitnessDesc(currentPopulation.agents)
        pop == [currentPopulation EXCEPT !.agents = sorted]
    IN  /\ lifecycle = "active"
        /\ returned' = [call |-> "getBestAgent",
                        value |-> IF Len(sorted) = 0 THEN <<>> ELSE <<sorted[1].agent>>]
        /\ currentPopulation' = pop
        /\ calls' = InPlace(calls, pop)
        /\ UNCHANGED <<session, lifecycle, config, isRunning, shouldStop, currentCycle,
                       history, lastResult, stopper, timerVars, nextAgentId,
                       committedPopulation, archive, store, searchResult, selection,
                       weights, evaluations, memberFitness, sink>>

\* this.currentPopulation.agents.find(a => a.agent.type === type)?.agent
GetAgentByType(type) ==
    LET found == SelectSeq(currentPopulation.agents, LAMBDA a : a.agent.type = type)
    IN  /\ lifecycle = "active"
        /\ returned' = [call |-> "getAgentByType", type |-> type,
                        value |-> IF Len(found) = 0 THEN <<>> ELSE <<found[1].agent>>]
        /\ UNCHANGED <<engineState, archive, store, searchResult, selection, weights,
                       evaluations, memberFitness, sink>>

\* a call of one of the accessors
Accessor ==
    \/ GetCurrentPopulation
    \/ GetEvolutionHistory
    \/ GetBestAgent
    \/ \E type \in Range(AgentTypes) : GetAgentByType(type)

(***************************************************************************)
(* Direct calls of PopulationManager.calculateStatistics.                  *)
(***************************************************************************)
\* the populations: up to MaxStatisticsSize members of any types
StatisticsPopulations ==
    UNION {{[k \in 1..n |-> [agent |-> BaseAgent(k, types[k]), fitness |-> 5]] :
              types \in [1..n -> Range(AgentTypes)]} : n \in 0..MaxStatisticsSize}

CalculateStatistics(agents) ==
    /\ returned' = [call |-> "calculateStatistics", agents |-> agents,
                    result |-> calculateStatisticsWithDiversity(agents)]
    /\ UNCHANGED <<engineState, archive, store, searchResult, selection, weights,
                   evaluations, memberFitness, sink>>

(***************************************************************************)
(* Direct calls of CrossoverOperator.crossover.                            *)
(***************************************************************************)
\* the capability lists of the parents: none (a BaseAgent), one, two
CapabilityLists == {<<>>, <<"generate">>, <<"review", "test">>}

\* the parents: agents 1 and 2, of generation 0 or 1, at the baseline
\* version or two patches later
CrossoverParents ==
    {[BaseAgent(id, AgentTypes[id]) EXCEPT !.generation = g, !.version = v,
                                          !.capabilities = caps] :
        id \in 1..2, g \in 0..1, v \in {BaselineVersion, BaselineVersion + 2},
        caps \in CapabilityLists}

\* crossover(parent1, parent2): the children get ids no agent has yet; the
\* parents are read only, the children are new objects with new lists
Crossover(parent1, parent2) ==
    /\ returned' = [call |-> "crossover",
                    parent1 |-> parent1, parent2 |-> parent2,
                    children |-> crossover(parent1, parent2, MaxAgentId + 1),
                    parentsAfter |-> <<parent1, parent2>>]
    /\ UNCHANGED <<engineState, archive, store, searchResult, selection, weights,
                   evaluations, memberFitness, sink>>

(***************************************************************************)
(* The system.  The environment is bounded: a new cycle is started only    *)
(* while the generations evolved so far and the agent ids handed out stay  *)
(* below a bound.                                                          *)
(***************************************************************************)
Budget(g, bound) ==
    /\ store.evolutionHistory.totalGenerations + currentPopulation.generation + g <= bound
    /\ nextAgentId <= MaxAgentId

\* the continuations of the evolve() call of caller c
Step(c) ==
    \/ EvaluationStep(c)
    \/ SelectionStep(c)
    \/ CrossoverStep(c)
    \/ MutationStep(c)
    \/ ReplacementStep(c)
    \/ ReplacedStep(c)
    \/ ArchiveStep(c)
    \/ EvolveFinish(c)

\* The engine of one session under direct calls of evolve and stopEvolution.
Next ==
    \/ \E cfg \in {DefaultConfiguration, HighElitismConfiguration} : Initialize(cfg)
    \/ \E g \in 1..MaxGens : Budget(g, MaxGeneration) /\ Evolve("cmd1", g)
    \/ \E c \in Callers : Step(c)
    \/ \E c \in Callers : GenerationError(c)
    \/ StopEvolution
    \/ StopReturn

Spec == Init /\ [][Next]_vars

\* The same, where every continuation of an evolve() call is eventually run
\* (agent executions terminate) and a poll of stopEvolution that can return
\* does so unless a cycle starts first.
FairSpec ==
    /\ Spec
    /\ \A c \in Callers : WF_vars(Step(c))
    /\ WF_vars(StopReturn)

\* The callers of evolve: commands, the scheduled timer and the interval of
\* auto-evolution, over one generation.
NextSchedule ==
    \/ \E cfg \in {DefaultConfiguration, DisabledConfiguration} : Initialize(cfg)
    \/ (isRunning \/ Budget(1, MaxGenerationSchedule)) /\ Evolve("cmd1", 1)
    \/ calls["cmd1"].pc # "idle" /\ Evolve("cmd2", 1)
    \/ \E c \in Callers : Step(c)
    \/ \E priority \in Priorities : scheduleEvolution(priority)
    \/ \E t \in timers : TimerFires(t, Budget(1, MaxGenerationSchedule))
    \/ Budget(1, MaxGenerationSchedule) /\ AutoEvolution

SpecSchedule == Init /\ [][NextSchedule]_vars

\* Sessions: the extension is activated, evolves, is deactivated and
\* activated again.
NextRestart ==
    \/ \E cfg \in {DefaultConfiguration, HighElitismConfiguration} : Initialize(cfg)
    \/ Shutdown
    \/ Budget(1, MaxGenerationSchedule) /\ Evolve("cmd1", 1)
    \/ \E c \in Callers : Step(c)

SpecRestart == Init /\ [][NextRestart]_vars

\* A long run of one session with the default configuration.
NextLong ==
    \/ Initialize(DefaultConfiguration)
    \/ \E g \in 1..MaxGens : Budget(g, MaxGenerationLong) /\ Evolve("cmd1", g)
    \/ \E c \in Callers : Step(c)

SpecLong == Init /\ [][NextLong]_vars

\* evaluateBatch with each of the telemetry collectors.
NextSink ==
    \/ \E telemetry \in Sinks : Activate(telemetry)
    \/ InitializeFails
    \/ \E agents \in Batches : EvaluateBatch(agents)
    \/ \E i \in 1..MaxBatch : EvaluateReturns(i)
    \/ BatchReturns

SpecSink == Init /\ [][NextSink]_vars

\* The elites of replacePopulation under one direct call.
NextElites ==
    \E members \in ElitePopulations : \E elitismRate \in ElitismRates :
       SelectElites(members, elitismRate)

SpecElites == Init /\ [][NextElites]_vars

\* buildLineageTree under one direct call.
NextLineage == \E entries \in LineageEntries : BuildLineageTreeOf(entries)

SpecLineage == Init /\ [][NextLineage]_vars

\* One generation of a session whose accessors are called at any point.
NextAccessors ==
    \/ Initialize(DefaultConfiguration)
    \/ Budget(1, MaxGenerationSchedule) /\ Evolve("cmd1", 1)
    \/ \E c \in Callers : Step(c)
    \/ Accessor

SpecAccessors == Init /\ [][NextAccessors]_vars

\* One generation of a session whose settings change at any point.
NextConfiguration ==
    \/ Initialize(DefaultConfiguration)
    \/ Budget(1, MaxGenerationSchedule) /\ Evolve("cmd1", 1)
    \/ \E c \in Callers : Step(c)
    \/ \E cfg \in ChangedConfigurations \cup {DefaultConfiguration} : ConfigurationChanged(cfg)

SpecConfiguration == Init /\ [][NextConfiguration]_vars

\* The scenario: one evolve call of ten generations, in which only the first
\* member of a population is ever given the higher of the scores an
\* evaluation can give.
HighScores ==
    {v \in EvalWithMethods : \A w \in EvalWithMethods : w <= v}
        \cup {v \in EvalWithoutMethods : \A w \in EvalWithoutMethods : w <= v}

OneHighScore ==
    \A k \in 2..Len(currentPopulation'.agents) :
       currentPopulation'.agents[k].fitness \notin HighScores

NextScenario ==
    \/ Initialize(ScenarioConfiguration) /\ OneHighScore
    \/ history.totalGenerations = 0 /\ Evolve("cmd1", ScenarioGenerations)
    \/ \E c \in Callers : Step(c) /\ OneHighScore

SpecScenario == Init /\ [][NextScenario]_vars

\* A session whose caller archives first and pages through the matches
\* afterwards.
NextPage ==
    \/ Initialize(DefaultConfiguration) /\ OneHighScore
    \/ \E agent \in Archivable : \E fitness \in ArchivedFitnessValues :
          searchResult = NoSearch /\ ArchiveAgent(agent, fitness, 1)
    \/ \E query \in PagedQueries : searchResult = NoSearch /\ Search(query)

SpecPage == Init /\ [][NextPage]_vars

\* Two sessions of evolve calls that return, are rejected or are aborted.
NextHistory ==
    \/ Initialize(DefaultConfiguration) /\ OneHighScore
    \/ Shutdown
    \/ Budget(1, MaxGeneration) /\ Evolve("cmd1", 1)
    \/ calls["cmd1"].pc # "idle" /\ lastResult.result # "AlreadyRunning" /\ Evolve("cmd2", 1)
    \/ \E c \in Callers : Step(c) /\ OneHighScore
    \/ \E c \in Callers : GenerationError(c)

SpecHistory == Init /\ [][NextHistory]_vars

\* stopEvolution among the callers of evolve: a command, the scheduled timer
\* and the interval of auto-evolution.
NextStop ==
    \/ Initialize(DefaultConfiguration) /\ OneHighScore
    \/ \E g \in 1..MaxGens : Budget(g, MaxGeneration) /\ Evolve("cmd1", g)
    \/ \E c \in Callers : Step(c) /\ OneHighScore
    \/ StopEvolution
    \/ StopReturn
    \/ scheduleEvolution("high")
    \/ \E t \in timers : TimerFires(t, Budget(1, MaxGeneration))
    \/ Budget(1, MaxGeneration) /\ AutoEvolution

SpecStop == Init /\ [][NextStop]_vars

\* shutdown() of an engine whose timer and interval callbacks stay
\* registered with the event loop.
NextShutdown ==
    \/ Initialize(DefaultConfiguration) /\ OneHighScore
    \/ Budget(1, MaxGeneration) /\ Evolve("cmd1", 1)
    \/ \E c \in Callers : Step(c) /\ OneHighScore
    \/ scheduleEvolution("high")
    \/ \E t \in timers : TimerFires(t, Budget(1, MaxGeneration))
    \/ Budget(1, MaxGeneration) /\ AutoEvolution
    \/ ShutdownBegin
    \/ ShutdownReturn

SpecShutdown == Init /\ [][NextShutdown]_vars

\* Two sessions in which the reads and the writes of globalState may fail.
NextPersistence ==
    \/ Initialize(DefaultConfiguration) /\ OneHighScore
    \/ InitializeLoadFails(DefaultConfiguration) /\ OneHighScore
    \/ Shutdown
    \/ Budget(1, MaxGenerationSchedule) /\ Evolve("cmd1", 1)
    \/ \E c \in Callers : Step(c) /\ OneHighScore
    \/ \E agent \in Archivable : \E fitness \in ArchivedFitnessValues :
          /\ ~isRunning
          /\ searchResult = NoSearch
          /\ returned.call # "archiveAgent"
          /\ ArchiveAgentSaveFails(agent, fitness, 1)
    \/ \E query \in TypeQueries :
          /\ returned.call = "archiveAgent"
          /\ searchResult = NoSearch
          /\ Search(query)

SpecPersistence == Init /\ [][NextPersistence]_vars

\* One generation of a session whose mutation generator can throw.
StepOrFailure(c) ==
    \/ EvaluationStep(c)
    \/ SelectionStep(c)
    \/ CrossoverStep(c)
    \/ MutationStepOrFailure(c)
    \/ ReplacementStep(c)
    \/ ReplacedStep(c)
    \/ ArchiveStep(c)
    \/ EvolveFinish(c)

NextMutation ==
    \/ Initialize(DefaultConfiguration)
    \/ Budget(1, MaxGenerationSchedule) /\ Evolve("cmd1", 1)
    \/ \E c \in Callers : StepOrFailure(c)

SpecMutation == Init /\ [][NextMutation]_vars

\* PopulationManager.calculateStatistics under one direct call.
NextStatistics ==
    \E agents \in StatisticsPopulations :
       returned = NoReturn /\ CalculateStatistics(agents)

SpecStatistics == Init /\ [][NextStatistics]_vars

\* CrossoverOperator under one direct call.
NextCrossover ==
    \E parent1 \in CrossoverParents : \E parent2 \in CrossoverParents :
       returned = NoReturn /\ Crossover(parent1, parent2)

SpecCrossover == Init /\ [][NextCrossover]_vars

\* The archive of a session under direct calls, over two sessions; in a
\* session the caller archives first and queries afterwards.
NextArchive ==
    \/ Initialize(DefaultConfiguration)
    \/ Shutdown
    \/ \E agent \in Archivable : \E fitness \in ArchivedFitnessValues :
          searchResult = NoSearch /\ ArchiveAgent(agent, fitness, 1)
    \/ \E query \in Queries : Search(query)
    \/ \E limit \in 1..MaxEntries : GetBestAgents(limit)
    \/ BuildLineageTree

SpecArchive == Init /\ [][NextArchive]_vars

\* SelectionStrategy under one direct call, with each of the strategies
\* configured.
NextSelect ==
    \E agents \in SelectPopulations : \E count \in 0..MaxSelectCount :
       \E strategy \in {"tournament", "roulette-wheel", "rank"} :
          selection = NoSelection /\ Select(agents, count, strategy)

SpecSelect == Init /\ [][NextSelect]_vars

\* FitnessEvaluator and createInitialFitness under direct calls: one batch,
\* one new member.
NextEvaluate ==
    \/ \E agents \in Batches : EvaluateBatch(agents)
    \/ \E i \in 1..MaxBatch : EvaluateReturns(i)
    \/ BatchReturns
    \/ \E update \in WeightUpdates : SetFitnessWeights(update)
    \/ \E overall \in InitialOveralls : \E jitter \in Jitters :
          CreateInitialFitness(overall, jitter)

SpecEvaluate == Init /\ [][NextEvaluate]_vars

\* evaluateBatch over inputs longer than a batch.
NextBatch ==
    \/ \E agents \in LongBatches : EvaluateBatch(agents)
    \/ \E k \in 1..MaxBatchAgents : EvaluateReturns(k)
    \/ BatchReturns
    \/ PauseEnds

SpecBatch == Init /\ [][NextBatch]_vars

\* The same, where an evaluate call whose promise is settled does return and
\* evaluateBatch returns once Promise.all is settled.
FairSpecEvaluate ==
    /\ SpecEvaluate
    /\ \A i \in 1..MaxBatch : WF_vars(EvaluateReturns(i))
    /\ WF_vars(BatchReturns)

(***************************************************************************)
(* Properties.                                                             *)
(***************************************************************************)
ActiveCalls == {c \in Callers : calls[c].pc # "idle"}

PhaseOrder ==
    {<<"none", "none">>, <<"none", "initialization">>, <<"initialization", "evaluation">>,
     <<"evaluation", "selection">>, <<"selection", "crossover">>, <<"crossover", "mutation">>,
     <<"mutation", "replacement">>, <<"replacement", "evaluation">>,
     <<"replacement", "completed">>}

\* C2: every assignment to a cycle's phase follows the order Initialization,
\* Evaluation, Selection, Crossover, Mutation, Replacement, then Evaluation
\* again or Completed: the phase a cycle has and the one it had before are
\* always consecutive, and a recorded cycle became Completed from Replacement.
C2_PhaseOrder ==
    /\ \A c \in Callers : <<calls[c].cycle.prevPhase, calls[c].cycle.phase>> \in PhaseOrder
    /\ \A i \in 1..Len(history.cycles) :
          /\ history.cycles[i].phase = "completed"
          /\ history.cycles[i].prevPhase = "replacement"

\* C2's case: a cycle has gone from Replacement back to Evaluation
C2_Witness ==
    \E c \in Callers :
        /\ calls[c].cycle.prevPhase = "replacement"
        /\ calls[c].cycle.phase = "evaluation"
        /\ calls[c].generation = 1

\* the phases of one generation, each with its successor
WithinGeneration ==
    {<<"evaluation", "selection">>, <<"selection", "crossover">>, <<"crossover", "mutation">>,
     <<"mutation", "replacement">>}

\* C3: while a stop is requested, a step of a running cycle either stays in
\* its phase, moves to the next phase of the same generation, or, from
\* Replacement, ends the cycle as Completed (no Evaluation begins); only an
\* error ends the call otherwise.
C3_StopAtBoundary ==
    [][\A c \in Callers :
          (shouldStop /\ calls[c].pc \notin {"idle", "archive"})
             => \/ calls[c]'.cycle.phase = calls[c].cycle.phase
                \/ <<calls[c].cycle.phase, calls[c]'.cycle.phase>> \in WithinGeneration
                \/ /\ calls[c].cycle.phase = "replacement"
                   /\ calls[c]'.cycle.phase = "completed"
                \/ /\ calls[c]'.pc = "idle"
                   /\ lastResult'.result = "Error"]_vars

\* C3's case: a cycle asked for two generations was stopped and is Completed
\* after its first
C3_Witness ==
    \E c \in Callers :
        /\ shouldStop
        /\ stopper = "waiting"
        /\ calls[c].maxGenerations = 2
        /\ calls[c].generation = 1
        /\ calls[c].cycle.phase = "completed"

\* C4: every population the Replacement phase has produced has exactly
\* config.populationSize members.
C4_PopulationSize ==
    committedPopulation.generation >= 1
        => Len(committedPopulation.agents) = config.populationSize

\* a call is about to bind the population its Replacement phase built
Replacing(c) == calls[c].pc = "replaced"

\* the members Replacement takes as elites: the population is sorted by then
Elites(pop, cfg) == slice(pop.agents, 0, FloorRate(Len(pop.agents), cfg.elitismRate))

\* C5: when Replacement installs generation N+1, each of the top
\* floor(size * elitismRate) members of generation N is a member of it with
\* the same agent id and the same fitness, and with an age that is not less
\* than it was.
C5_ElitesCarried ==
    [][\A c \in Callers :
          (Replacing(c) /\ committedPopulation' # committedPopulation)
             => \A k \in 1..Len(Elites(currentPopulation, config)) :
                   \E m \in 1..Len(committedPopulation'.agents) :
                      /\ committedPopulation'.agents[m].agent.id
                            = currentPopulation.agents[k].agent.id
                      /\ committedPopulation'.agents[m].fitness
                            = currentPopulation.agents[k].fitness
                      /\ committedPopulation'.agents[m].age
                            >= currentPopulation.agents[k].age]_vars

\* a step in which an evolve() call ends with an error thrown inside a
\* generation
Aborts(c) ==
    /\ calls[c].pc \in GenerationPcs
    /\ calls[c]'.pc = "idle"
    /\ lastResult'.result = "Error"

\* C6: when an error inside a generation ends an evolve() call, the cycle's
\* endTime has been stamped and the current population is the one the last
\* completed Replacement (or initialize) produced: members, fitness values
\* and statistics.
C6_AbortKeepsPopulation ==
    [][\A c \in Callers :
          Aborts(c) => /\ lastResult'.endTime
                       /\ currentPopulation' = committedPopulation']_vars

\* C7: a stopEvolution() call that is waiting for a cycle to end eventually
\* returns.
C7_StopReturns == (stopper = "waiting") ~> (stopper = "idle")

\* a call is inside a generation (between Evaluation and the end of
\* Replacement)
InGeneration(c) == calls[c].pc \notin {"idle", "archive"}

\* the averageFitness values of the last 10 recorded cycles are all equal:
\* their variance is 0, below every positive threshold
Converged ==
    /\ Len(history.cycles) >= ConvergenceWindow
    /\ \A i \in 1..ConvergenceWindow : RecentAverages(history)[i] = RecentAverages(history)[1]

\* C8: with at least 10 recorded cycles whose averageFitness values have
\* variance below the threshold, a cycle runs no generation after its first:
\* after that generation it is Completed.
C8_StopsWhenConverged ==
    Converged => \A c \in Callers : ~(InGeneration(c) /\ calls[c].generation >= 1)

\* C9: at most one scheduled evolution is pending, and it is the one
\* evolutionTimer holds; a scheduleEvolution(priority) call with evolution
\* enabled leaves exactly one pending timer, a new one with the delay of its
\* priority: 1000 ms for high, 5000 ms for medium, 30000 ms for low.
C9_OnePendingTimer ==
    /\ [](/\ Cardinality(timers) <= 1
          /\ \A t \in timers : t.id = evolutionTimer)
    /\ [][\A priority \in Priorities :
             (config.enabled /\ scheduleEvolution(priority))
                => \E t \in timers' :
                      /\ timers' = {t}
                      /\ t \notin timers
                      /\ t.delay = (CASE priority = "high" -> 1000
                                      [] priority = "medium" -> 5000
                                      [] priority = "low" -> 30000)]_vars

\* C9's case: a second schedule request has replaced a pending timer of
\* another priority
C9_Witness ==
    /\ nextTimer = 3
    /\ timers = {[id |-> 2, delay |-> 1000]}
    /\ calls["timer"].pc = "idle"
    /\ ~isRunning

\* the ids an index holds, over all keys
IndexedIds(index) == {index[i].id : i \in 1..Len(index)}

EntryIds(a) == {a.entries[i].id : i \in 1..Len(a.entries)}

\* C10: every entry of the archive is in the list of its fitness bucket, of
\* its generation, of its agent type and of each of its tags, and every id
\* an index holds is the id of an entry.
C10_IndexConsistent ==
    /\ \A i \in 1..Len(archive.entries) :
          LET entry == archive.entries[i]
          IN  /\ entry.id \in Range(IdsOf(archive.index.byFitness, FitnessKey(entry)))
              /\ entry.id \in Range(IdsOf(archive.index.byGeneration, GenerationKey(entry)))
              /\ entry.id \in Range(IdsOf(archive.index.byAgentType, entry.agentSnapshot.type))
              /\ \A t \in 1..Len(entry.tags) :
                    entry.id \in Range(IdsOf(archive.index.byTag, entry.tags[t]))
    /\ IndexedIds(archive.index.byFitness) \subseteq EntryIds(archive)
    /\ IndexedIds(archive.index.byGeneration) \subseteq EntryIds(archive)
    /\ IndexedIds(archive.index.byAgentType) \subseteq EntryIds(archive)
    /\ IndexedIds(archive.index.byTag) \subseteq EntryIds(archive)

\* a query that gives a fitness range and no other filter
FitnessRangeOnly(query) ==
    /\ query.minFitness # <<>>
    /\ query.maxFitness # <<>>
    /\ query.agentType = Undefined
    /\ Len(query.tags) = 0

\* the ids of the entries whose overall fitness lies in [a, b], found by
\* looking at every entry
BruteForce(entries, a, b) ==
    {entries[i].id : i \in {j \in 1..Len(entries) : a <= entries[j].fitness
                                                     /\ entries[j].fitness <= b}}

ResultIds(result) == {result.entries[i].id : i \in 1..Len(result.entries)}

\* C11: a search with a fitness range [a, b] and no other filter matches
\* exactly the entries whose overall fitness lies in [a, b]: totalCount is
\* their number, the returned page holds min(limit, totalCount) distinct
\* entries out of them, and all of them when the limit allows it.  (The
\* archive is as the search found it: a session's queries follow its
\* archiveAgent calls.)
C11_FitnessRange ==
    (searchResult.kind = "search" /\ FitnessRangeOnly(searchResult.query))
       => LET query == searchResult.query
              expected == BruteForce(archive.entries, query.minFitness[1], query.maxFitness[1])
              limit == IF query.limit = 0 THEN 50 ELSE query.limit
          IN  /\ searchResult.totalCount = Cardinality(expected)
              /\ ResultIds(searchResult) \subseteq expected
              /\ Len(searchResult.entries) = Min(limit, Cardinality(expected))
              /\ Cardinality(ResultIds(searchResult)) = Len(searchResult.entries)
              /\ limit >= Cardinality(expected) => ResultIds(searchResult) = expected

\* C11's case: of two entries a range search has matched the one whose
\* fitness is the lower end of the range, and not the other, below it
C11_Witness ==
    /\ searchResult.kind = "search"
    /\ FitnessRangeOnly(searchResult.query)
    /\ Len(archive.entries) = 2
    /\ searchResult.totalCount = 1
    /\ searchResult.entries[1].fitness = searchResult.query.minFitness[1]
    /\ \E i \in 1..2 : archive.entries[i].fitness < searchResult.query.minFitness[1]

\* a result holds an entry with this snapshot
Holds(result, snapshot) ==
    \E i \in 1..Len(result.entries) : result.entries[i].agentSnapshot = snapshot

\* C12: an archived agent is retrieved with the snapshot archiveAgent took of
\* it: for every entry archiveAgent has stored, getBestAgents with a limit of
\* at least the number of entries, a search by the snapshot's agent type and
\* a search by one of the entry's tags each return an entry with that
\* snapshot.
C12_RoundTrip ==
    \A i \in 1..Len(archive.entries) :
        LET entry == archive.entries[i]
        IN  /\ (searchResult.kind = "best" /\ searchResult.limit >= Len(archive.entries))
                  => Holds(searchResult, entry.agentSnapshot)
            /\ (/\ searchResult.kind = "search"
                /\ searchResult.query \in TypeQueries
                /\ searchResult.query.agentType = entry.agentSnapshot.type)
                  => Holds(searchResult, entry.agentSnapshot)
            /\ (/\ searchResult.kind = "search"
                /\ searchResult.query \in TagQueries
                /\ searchResult.query.tags[1] \in Range(entry.tags))
                  => Holds(searchResult, entry.agentSnapshot)

\* the entries that hold the snapshot of an agent's parent
ParentEntries(a, agent) ==
    {i \in 1..Len(a.entries) : a.entries[i].agentSnapshot.id = agent.parentId}

\* C13: when an agent with a parentId is archived and an entry holds its
\* parent, the new entry's parentId is the id of the parent's entry, and
\* buildLineageTree over the entries has the edge from the parent's entry to
\* the new one.
C13_LineageRecorded ==
    [][\A agent \in Archivable : \A fitness \in ArchivedFitnessValues :
          (/\ agent.parentId # 0
           /\ ParentEntries(archive, agent) # {}
           /\ ArchiveAgent(agent, fitness, 1))
             => LET child == archive'.entries[Len(archive'.entries)]
                IN  \A i \in ParentEntries(archive, agent) :
                       /\ ParentIdOf(child) = archive.entries[i].id
                       /\ \E edge \in buildLineageTree(archive'.entries).edges :
                             /\ edge.from = archive.entries[i].id
                             /\ edge.to = child.id]_vars

\* C14: a select call with count at most the population size returns
\* exactly count agents; one with count above the population size fails with
\* InsufficientPopulation and returns no agents.
C14_SelectCount ==
    selection.status # "none"
       => IF selection.count <= Len(selection.agents)
          THEN /\ selection.status = "returned"
               /\ Len(selection.selected) = selection.count
          ELSE /\ selection.status = "InsufficientPopulation"
               /\ selection.selected = <<>>

\* the call was a roulette-wheel selection from a population with members,
\* all of fitness 0
ZeroTotalRoulette ==
    /\ selection.status # "none"
    /\ selection.strategy = "roulette-wheel"
    /\ Len(selection.agents) > 0
    /\ SumSeq(FitnessValues(selection.agents)) = 0

\* C15: a roulette-wheel selection from a population of total fitness 0
\* returns exactly count agents, and each of its picks is open to every
\* member: for every slot and every member some outcome of the call has that
\* member in that slot.
C15_ZeroTotalUniform ==
    ZeroTotalRoulette
       => /\ selection.status = "returned"
          /\ Len(selection.selected) = selection.count
          /\ \A slot \in 1..selection.count : \A k \in 1..Len(selection.agents) :
                \E outcome \in SelectOutcomes(selection.agents, selection.count,
                                              "roulette-wheel") :
                   outcome.selected[slot] = selection.agents[k].agent

\* the members of a tournament that the claim lets win: those of the highest
\* fitness and, among them, of the lowest agent id
ClaimedWinners(agents, tournament) ==
    {k \in Range(tournament) :
        \A j \in Range(tournament) :
            \/ agents[j].fitness < agents[k].fitness
            \/ agents[j].fitness = agents[k].fitness /\ agents[k].agent.id <= agents[j].agent.id}

\* C16: every agent a tournament selection returns is a member of the
\* population given, and is the member of the highest fitness, and among
\* these of the lowest agent id, of a sample of max(2, floor(10% of the
\* population)) distinct members (of all members when there are fewer).
C16_TournamentWinner ==
    (selection.status = "returned" /\ selection.strategy = "tournament")
       => \A i \in 1..Len(selection.selected) :
             LET agents == selection.agents
                 tournament == selection.tournaments[i]
             IN  /\ selection.selected[i] \in Range(AgentsOf(agents))
                 /\ Len(tournament) = Min(Len(agents), Max(2, (Len(agents) * 1) \div 10))
                 /\ Cardinality(Range(tournament)) = Len(tournament)
                 /\ \E k \in ClaimedWinners(agents, tournament) :
                       selection.selected[i] = agents[k].agent


\* the weights sum to 1
Convex(w) ==
    w.codeQuality + w.performance + w.reliability + w.userSatisfaction
        + w.resourceEfficiency = 100

\* a score lies in [0, 1] and is the convex combination of its components
\* under the weights w
ConvexCombination(score, w) ==
    /\ 0 <= score.overall
    /\ score.overall <= One
    /\ Convex(w)
    /\ score.overall = calculateOverallFitness(score.components, w)

\* C17: every FitnessScore, the initial score of a new population member
\* (under the default weights) and every score evaluate returns (under the
\* evaluator's weights at that time, setFitnessWeights included, and the
\* minimal fallback score included), has 0 <= overall <= 1 and overall equal
\* to the sum of weight times component over the five components, the
\* weights summing to 1.
C17_ConvexCombination ==
    /\ memberFitness # NoFitness => ConvexCombination(memberFitness, DefaultWeights)
    /\ \A i \in 1..Len(evaluations.calls) :
          evaluations.calls[i].pc = "done" =>
              ConvexCombination(evaluations.calls[i].result.fitness,
                                evaluations.calls[i].result.fitness.weights)

\* the fields of a FitnessScore
IsFitnessScore(score) ==
    /\ {"overall", "components"} \subseteq DOMAIN score
    /\ score.overall \in Int
    /\ DOMAIN score.components = DOMAIN DefaultWeights
    /\ \A c \in DOMAIN score.components : score.components[c] \in Int

\* C18: an evaluate call that has ended has returned, never raised, whatever
\* execute did for the tasks (success false, throwing); what it returned is
\* a FitnessScore, and when the evaluation failed as a whole its overall and
\* each of its components are 0.1.
C18_EvaluateNeverRaises ==
    \A i \in 1..Len(evaluations.calls) :
       evaluations.calls[i].pc = "done" =>
          LET result == evaluations.calls[i].result
          IN  /\ result.status = "returned"
              /\ IsFitnessScore(result.fitness)
              /\ result.failed =>
                    /\ result.fitness.overall = Tenth
                    /\ \A c \in DOMAIN result.fitness.components :
                          result.fitness.components[c] = Tenth

\* an evaluate call has ended for an agent whose execute throws on some task
\* and returns success false on another, and whose evaluation failed as a
\* whole
C18_Witness ==
    \E i \in 1..Len(evaluations.calls) :
       /\ evaluations.calls[i].pc = "done"
       /\ evaluations.calls[i].result.failed
       /\ \E t \in 1..5 : evaluations.calls[i].agent.execute[t] = "throws"
       /\ \E t \in 1..5 : evaluations.calls[i].agent.execute[t] = "failure"

\* C19: when exactly one component evaluator threw during an evaluate call,
\* the evaluation is not aborted: that component is 0, the other four have
\* the values their evaluators compute, and overall is the weighted sum of
\* the five.
C19_OneEvaluatorThrows ==
    \A i \in 1..Len(evaluations.calls) :
       LET agent == evaluations.calls[i].agent
           result == evaluations.calls[i].result
           whole == [agent EXCEPT !.hasState = TRUE]
       IN  (evaluations.calls[i].pc = "done" /\ Cardinality(ThrowingEvaluators(agent)) = 1) =>
              /\ result.status = "returned"
              /\ ~result.failed
              /\ \A c \in ThrowingEvaluators(agent) : result.fitness.components[c] = 0
              /\ \E executionTime \in ExecutionTimes : \E memoryPercentage \in MemoryPercentages :
                 \E cpuUsage \in CpuUsages :
                    LET kept == evaluateComponents(whole, executionTime, memoryPercentage,
                                                   cpuUsage).components
                    IN  \A c \in DOMAIN kept \ ThrowingEvaluators(agent) :
                           result.fitness.components[c] = kept[c]
              /\ result.fitness.overall =
                    calculateOverallFitness(result.fitness.components, result.fitness.weights)

\* C20: an evaluateBatch call, and every evaluate call in it, eventually
\* ends, also when the execute of one agent never returns: the batch result
\* is returned with a score for every agent.
C20_BatchCompletes ==
    (evaluations.batch = "awaiting") ~>
        /\ evaluations.batch = "returned"
        /\ \A i \in 1..Len(evaluations.calls) : evaluations.calls[i].pc = "done"


\* the evaluate calls in flight
InFlight == {k \in 1..Len(evaluations.calls) : evaluations.calls[k].pc = "running"}

\* the batch an agent of the input belongs to, by its position
BatchOf(k) == (k - 1) \div batchSize

\* the last position of the input that holds an agent with this id
LastWithId(id) ==
    CHOOSE k \in 1..Len(evaluations.agents) :
       /\ evaluations.agents[k].id = id
       /\ \A j \in k + 1..Len(evaluations.agents) : evaluations.agents[j].id # id

\* C21: during evaluateBatch at most batchSize (5) evaluate calls are in
\* flight, an evaluate call of a later batch is started only when every
\* call of the batches before it has ended, and the map returned holds
\* exactly one score for every distinct agent id of the input: the one the
\* evaluate call for that id returned, whatever the order in which the calls
\* of a batch ended.
C21_BatchedEvaluation ==
    /\ Cardinality(InFlight) <= batchSize
    /\ \A k \in 1..Len(evaluations.calls) : \A j \in 1..Len(evaluations.calls) :
          BatchOf(j) < BatchOf(k) => evaluations.calls[j].pc = "done"
    /\ evaluations.batch = "returned" =>
          /\ DOMAIN evaluations.results =
                {evaluations.agents[k].id : k \in 1..Len(evaluations.agents)}
          /\ \A id \in DOMAIN evaluations.results :
                evaluations.results[id] = evaluations.calls[LastWithId(id)].result.fitness

\* evaluateBatch has returned the map for an input of more than one batch in
\* which an id comes twice
C21_Witness ==
    /\ evaluations.batch = "returned"
    /\ Len(evaluations.agents) > batchSize
    /\ \E j, k \in 1..Len(evaluations.agents) :
          j # k /\ evaluations.agents[j].id = evaluations.agents[k].id


\* C22: a mutate call that throws is not fatal.  After performMutation the
\* mutated offspring are as many as the offspring, an agent whose mutation
\* failed is the same agent in the same place, the cycle goes on to the
\* Replacement phase, totalMutations has grown by one for every offspring and
\* successfulMutations by one for every mutate call that did not fail; and
\* successfulMutations never exceeds totalMutations.
C22_MutationFailureKept ==
    /\ history.successfulMutations <= history.totalMutations
    /\ \A c \in Callers :
          calls[c].pc = "replacement" =>
             LET m == calls[c].mutation
                 n == Len(m.offspring)
             IN  /\ Len(calls[c].offspring) = n
                 /\ \A i \in 1..n :
                       m.outcome[i] = "failed" => calls[c].offspring[i] = m.offspring[i]
                 /\ calls[c].cycle.phase = "mutation"
                 /\ history.totalMutations = m.before.totalMutations + n
                 /\ history.successfulMutations =
                       m.before.successfulMutations
                           + Cardinality({i \in 1..n : m.outcome[i] # "failed"})

\* performMutation has returned after a mutate call failed and another one
\* applied a mutation
C22_Witness ==
    \E c \in Callers :
       /\ calls[c].pc = "replacement"
       /\ \E i \in 1..Len(calls[c].mutation.offspring) : calls[c].mutation.outcome[i] = "failed"
       /\ \E i \in 1..Len(calls[c].mutation.offspring) : calls[c].mutation.outcome[i] = "mutated"


\* the children a crossover call returned are what the claim says of the
\* child whose primary parent is `primary` and whose other parent is
\* `secondary`
ChildOf(child, primary, secondary) ==
    /\ child.id \notin {primary.id, secondary.id}
    /\ child.version = BaselineVersion
    /\ child.generation = Max(primary.generation, secondary.generation) + 1
    /\ Len(child.capabilities) = Len(primary.capabilities) + 1
    /\ SubSeq(child.capabilities, 1, Len(primary.capabilities)) = primary.capabilities
    /\ \E k \in 1..Len(secondary.capabilities) :
          child.capabilities[Len(child.capabilities)] = secondary.capabilities[k]

\* C23: crossover returns exactly two children; each has an id that is not
\* an id of a parent, the baseline version, the generation after the later
\* of the parents' generations, and the capability list of its primary
\* parent followed by exactly one capability of the other parent; the
\* parents are as they were.
C23_CrossoverChildren ==
    returned.call = "crossover" =>
       /\ Len(returned.children) = 2
       /\ ChildOf(returned.children[1], returned.parent1, returned.parent2)
       /\ ChildOf(returned.children[2], returned.parent2, returned.parent1)
       /\ returned.parentsAfter = <<returned.parent1, returned.parent2>>


\* a diversity is 1.0: log2(num / den) = log2(max)
IsOne(diversity) == diversity.num = diversity.max * diversity.den

\* a diversity is 0: log2(num / den) = 0
IsZero(diversity) == diversity.num = diversity.den

\* the members are spread uniformly across all agent types
UniformOverAllTypes(agents) ==
    \A i \in 1..Len(AgentTypes) :
       /\ TypeCount(agents, AgentTypes[i]) > 0
       /\ TypeCount(agents, AgentTypes[i]) = TypeCount(agents, AgentTypes[1])

\* all members have the same type
SingleType(agents) == \A j, k \in 1..Len(agents) : agents[j].agent.type = agents[k].agent.type

\* C24: for a population of at least one member, calculateStatistics
\* reports the diversity 1.0 when the members are spread uniformly across
\* all agent types and the diversity 0 when all members have the same type.
C24_Diversity ==
    (returned.call = "calculateStatistics" /\ Len(returned.agents) >= 1) =>
       /\ UniformOverAllTypes(returned.agents) => IsOne(returned.result.diversity)
       /\ SingleType(returned.agents) => IsZero(returned.result.diversity)


\* the members of the population being replaced that the population about
\* to be installed keeps
Retained(c) ==
    {k \in 1..Len(currentPopulation.agents) :
        \E m \in 1..Len(calls[c].offspring) :
           calls[c].offspring[m].id = currentPopulation.agents[k].agent.id}

\* C25: with ten members, elitism rate 0.1 and mutation rate 0, in every
\* generation mutate returns each offspring unchanged, exactly one member is
\* retained as the elite, and a retained agent has the capabilities it had.
C25_OneEliteNoMutation ==
    \A c \in Callers :
       /\ calls[c].pc = "replacement" =>
             /\ calls[c].offspring = calls[c].mutation.offspring
             /\ \A i \in 1..Len(calls[c].offspring) : calls[c].mutation.outcome[i] = "same"
       /\ Replacing(c) =>
             /\ Cardinality(Retained(c)) = 1
             /\ \A k \in Retained(c) : \A m \in 1..Len(calls[c].offspring) :
                   calls[c].offspring[m].id = currentPopulation.agents[k].agent.id =>
                      calls[c].offspring[m].capabilities
                         = currentPopulation.agents[k].agent.capabilities


\* C26: getCurrentPopulation, getEvolutionHistory, getBestAgent and
\* getAgentByType are pure reads: a call leaves the population, the order
\* of its members included, the history and the run flags as they were.
C26_PureReads ==
    [][Accessor => UNCHANGED <<currentPopulation, history, isRunning, shouldStop>>]_vars


\* the members of the population among the agents
NumRetained(agents) ==
    Cardinality({k \in 1..Len(agents) :
                    \E m \in 1..Len(currentPopulation.agents) :
                        currentPopulation.agents[m].agent.id = agents[k].id})

\* C27: the evolution configuration is read once when a cycle starts: a
\* change made while the cycle is in progress does not affect its remaining
\* phases.  The parents selected are as many as the crossover rate read at
\* the start of the cycle gives, and the elites retained as many as the
\* elitism rate read at the start gives.
C27_ConfigurationReadOnce ==
    \A c \in Callers :
        /\ calls[c].pc = "crossover"
             => Len(calls[c].parents)
                  = FloorRate(Len(currentPopulation.agents), calls[c].config.crossoverRate)
        /\ calls[c].pc = "replaced"
             => NumRetained(calls[c].offspring)
                  = Min(FloorRate(Len(currentPopulation.agents), calls[c].config.elitismRate),
                        calls[c].config.populationSize)


\* C28: the outcome of the core does not depend on the telemetry collector:
\* whichever collector the components have (working, dropping every event,
\* absent), an evaluate call that has ended has ended as it can with a
\* working collector, with the same FitnessScore.
C28_SinkIndependent ==
    \A i \in 1..Len(evaluations.calls) :
       evaluations.calls[i].pc = "done" =>
          \E executionTime \in ExecutionTimes : \E memoryPercentage \in MemoryPercentages :
          \E cpuUsage \in CpuUsages :
             evaluations.calls[i].result
                = evaluateResult(evaluations.calls[i].agent,
                                 evaluations.calls[i].result.fitness.weights, "working",
                                 executionTime, memoryPercentage, cpuUsage)


\* the entry is stored and indexed in the archive
StoredAndIndexed(entry) ==
    /\ \E k \in 1..Len(archive.entries) : archive.entries[k] = entry
    /\ \E k \in 1..Len(archive.index.byAgentType) :
          archive.index.byAgentType[k] = [key |-> entry.agentSnapshot.type, id |-> entry.id]
    /\ \E k \in 1..Len(archive.index.byFitness) : archive.index.byFitness[k].id = entry.id
    /\ \A t \in 1..Len(entry.tags) :
          \E k \in 1..Len(archive.index.byTag) :
             archive.index.byTag[k] = [key |-> entry.tags[t], id |-> entry.id]

\* a search for the agent type of the entry finds it
FoundBySearch(entry) ==
    LET found == search(archive, [EmptyQuery EXCEPT !.agentType = entry.agentSnapshot.type])
    IN  \E k \in 1..Len(found.entries) : found.entries[k] = entry

\* C29: a failing persistence backend is never fatal.  After an archiveAgent
\* call whose save failed the entry has been returned, is stored and indexed
\* in memory and is found by a search; after an initialize whose loads failed
\* the engine is active, with its population, the history is empty and the
\* archive holds no entry but those archived since (each of them indexed).
C29_PersistenceFailureNotFatal ==
    /\ (returned.call = "archiveAgent" /\ ~returned.saved)
          => /\ StoredAndIndexed(returned.entry)
             /\ FoundBySearch(returned.entry)
             /\ searchResult # NoSearch
                  => (searchResult.query.agentType = returned.entry.agentSnapshot.type
                        => \E k \in 1..Len(searchResult.entries) :
                              searchResult.entries[k] = returned.entry)
    /\ (returned.call = "initialize" /\ ~returned.loaded)
          => /\ lifecycle = "active"
             /\ Len(currentPopulation.agents) > 0
             /\ history.totalGenerations = Len(history.cycles)
             /\ \A k \in 1..Len(history.cycles) : history.cycles[k].generation = k
             /\ \A k \in 1..Len(archive.entries) : StoredAndIndexed(archive.entries[k])

\* in a second session, whose loads failed with several entries saved, an
\* archiveAgent call whose save failed has returned, and a search has found
\* its entry
C29_Witness ==
    /\ session = 2
    /\ Len(store.archiveData.entries) > 1
    /\ store.evolutionHistory.totalGenerations > 0
    /\ history = EmptyHistory
    /\ Len(archive.entries) = 1
    /\ returned.call = "archiveAgent"
    /\ ~returned.saved
    /\ searchResult # NoSearch
    /\ \E k \in 1..Len(searchResult.entries) : searchResult.entries[k] = returned.entry


\* the parentId of the i-th entry is the id of another entry of the list
Resolves(entries, i) ==
    /\ ParentIdOf(entries[i]) # 0
    /\ \E j \in 1..Len(entries) : j # i /\ entries[j].id = ParentIdOf(entries[i])

\* the tree has one node per entry; every entry whose parentId resolves has
\* exactly one edge, from its parent, with the child's fitness less the
\* parent's, and is among the children of its parent
NodesAndEdges(entries, tree) ==
    /\ tree.nodes = {entries[i].id : i \in 1..Len(entries)}
    /\ Cardinality(tree.nodes) = Len(entries)
    /\ \A i \in 1..Len(entries) :
          Resolves(entries, i) =>
             LET parentId == ParentIdOf(entries[i])
                 edgesTo == {e \in tree.edges : e.to = entries[i].id}
             IN  /\ edgesTo = {[from |-> parentId, to |-> entries[i].id,
                                fitnessChange |-> entries[i].fitness
                                                    - EntryOf(entries, parentId).fitness]}
                 /\ \E k \in 1..Len(tree.children[parentId]) :
                       tree.children[parentId][k] = entries[i].id

\* C30: buildLineageTree(entries) creates one node per entry and, for each
\* entry whose parentId resolves to another entry of the set, exactly one
\* edge with fitnessChange = child overall - parent overall, the child being
\* listed among the parent's children; every entry with no resolvable parent
\* (no parentId, or one that is not in the set) is treated as a root, so
\* rootId names such an entry whenever one exists.
C30_LineageTree ==
    returned.call = "buildLineageTree" =>
       /\ NodesAndEdges(returned.entries, returned.tree)
       /\ (\E i \in 1..Len(returned.entries) : ~Resolves(returned.entries, i))
             => \E i \in 1..Len(returned.entries) :
                   /\ ~Resolves(returned.entries, i)
                   /\ returned.tree.rootId = returned.entries[i].id


\* member j comes before member k: its fitness is higher, or the same with
\* a lower agent id
Before(members, j, k) ==
    \/ members[j].fitness > members[k].fitness
    \/ members[j].fitness = members[k].fitness /\ members[j].agent.id < members[k].agent.id

\* C31: the elites chosen in Replacement are exactly the top
\* floor(size * elitismRate) members by fitness.overall, ties broken by the
\* lower agent id (so they do not depend on the order the members are
\* stored in).
C31_ElitesByFitnessThenId ==
    returned.call = "selectElites" =>
       LET members == returned.members
           eliteCount == FloorRate(Len(members), returned.elitismRate)
       IN  {returned.elites[k].id : k \in 1..Len(returned.elites)}
             = {members[k].agent.id :
                   k \in {m \in 1..Len(members) :
                            Cardinality({j \in 1..Len(members) : Before(members, j, m)})
                               < eliteCount}}


\* the entries that pass the filters of a paged query, in the order asked for
Matches(entries, query) ==
    sortEntries(SelectSeq(entries,
                          LAMBDA e : query.minFitness = <<>> \/ e.fitness >= query.minFitness[1]),
                query.sortBy)

\* C32: a search whose query gives limit >= 0 and offset >= 0 returns
\* totalCount = the number of entries matching the filters, entries = the
\* sorted matches from position offset up to offset + limit, never more than
\* limit of them, and hasMore = TRUE exactly when there are matches at or
\* beyond position offset + limit.
C32_Pagination ==
    (searchResult.kind = "search" /\ "given" \in DOMAIN searchResult.query)
       => LET query == searchResult.query
              matches == Matches(archive.entries, query)
          IN  /\ searchResult.totalCount = Len(matches)
              /\ searchResult.entries
                    = SubSeq(matches, query.offset + 1,
                             Min(query.offset + query.limit, Len(matches)))
              /\ Len(searchResult.entries) <= query.limit
              /\ searchResult.hasMore = (Len(matches) > query.offset + query.limit)


\* the agent is a generation later than the parent its parentId names
LaterThanParent(agent, parent) ==
    /\ agent.parentId = parent.id
    /\ agent.generation \in Nat
    /\ agent.generation > parent.generation

\* C33: every agent produced by crossover or by mutation has a generation
\* that is a non-negative integer greater than the generation of the agent
\* its parentId names: a child of the Crossover phase names a member of the
\* population, an agent of the Mutation phase the offspring it was made of.
C33_GenerationIncreases ==
    \A c \in Callers :
        /\ calls[c].pc = "mutation"
             => \A i \in 1..Len(calls[c].offspring) :
                   \E m \in 1..Len(currentPopulation.agents) :
                      LaterThanParent(calls[c].offspring[i], currentPopulation.agents[m].agent)
        /\ calls[c].pc = "replacement"
             => \A i \in 1..Len(calls[c].offspring) :
                   calls[c].mutation.outcome[i] = "mutated"
                      => LaterThanParent(calls[c].offspring[i], calls[c].mutation.offspring[i])

\* in a second generation a child of a mutated child has been mutated itself:
\* a chain of four agents above the initial one
C33_Witness ==
    \E c \in Callers :
        /\ calls[c].pc = "replacement"
        /\ \E i \in 1..Len(calls[c].offspring) :
              /\ calls[c].mutation.outcome[i] = "mutated"
              /\ calls[c].offspring[i].generation = 4
              /\ calls[c].mutation.offspring[i].generation = 3


\* an evolve call is rejected with AlreadyRunning in this step
Rejected == lastResult'.result = "AlreadyRunning" /\ lastResult # lastResult'

\* an evolve call is aborted by an error in this step
Aborted ==
    \E c \in Callers :
       calls[c].pc # "idle" /\ calls'[c].pc = "idle" /\ lastResult'.result = "Error"

\* an evolve call returns its cycle in this step
Returned ==
    \E c \in Callers :
       calls[c].pc # "idle" /\ calls'[c].pc = "idle" /\ lastResult'.result = "Completed"

StatisticsAgree(population) ==
    LET members == population.agents
        values == {members[k].fitness : k \in 1..Len(members)}
    IN  /\ population.statistics.size = Len(members)
        /\ Len(members) > 0
             => /\ population.statistics.averageFitness * Len(members)
                     = SumSeq(FitnessValues(members)) * AvgScale
                /\ population.statistics.bestFitness \in values
                /\ \A v \in values : v <= population.statistics.bestFitness
                /\ population.statistics.worstFitness \in values
                /\ \A v \in values : v >= population.statistics.worstFitness

\* C35: a reader who calls getCurrentPopulation() while a cycle is running
\* observes a population whose statistics agree with its members: size is
\* their number, averageFitness, bestFitness and worstFitness the mean, the
\* maximum and the minimum of their fitness.overall.
C35_ReaderSeesConsistentStatistics ==
    (/\ isRunning
     /\ returned.call = "getCurrentPopulation"
     /\ returned.value = currentPopulation)
       => StatisticsAgree(returned.value)


\* a cycle starts in this step
CycleStarts == \E c \in Callers : calls[c].pc = "idle" /\ calls'[c].pc # "idle"

\* a generation begins in this step: the phase of a cycle becomes Evaluation
GenerationBegins ==
    \E c \in Callers :
       /\ calls'[c].cycle.phase = "evaluation"
       /\ calls[c].cycle.phase # "evaluation"

\* C36: a stop request is never lost: from the call of stopEvolution()
\* during a cycle until that call returns, no new generation begins and no
\* new cycle starts, also when the scheduled timer or the interval of
\* auto-evolution fires in between.
C36_StopNeverLost ==
    [][stopper = "waiting" => ~CycleStarts /\ ~GenerationBegins]_vars


\* the cycle the last evolve call returned
ReturnedCycle == history.cycles[Len(history.cycles)]

\* the last entries of the archive are the top performers of the population,
\* best first
TopPerformersArchived(population) ==
    LET top == slice(sortByFitnessDesc(population.agents), 0, ArchiveTop)
        n == Len(archive.entries) - Len(top)
    IN  /\ n >= 0
        /\ \A i \in 1..Len(top) :
              /\ archive.entries[n + i].agentSnapshot.id = top[i].agent.id
              /\ archive.entries[n + i].fitness = top[i].fitness

\* C37: the cycle evolve returns carries the population as it is at the end
\* of the cycle: cycle.population is the population getCurrentPopulation()
\* returns right after evolve returned, and the top performers archived at
\* the end of the cycle are the fittest members of that final population.
C37_CycleCarriesFinalPopulation ==
    (~isRunning /\ lastResult.result = "Completed" /\ Len(history.cycles) > 0)
        => /\ ReturnedCycle.population = currentPopulation
           /\ TopPerformersArchived(currentPopulation)


\* an evolve call returns its cycle in this step
CycleReturned == Len(history'.cycles) > Len(history.cycles)

\* the Replacement phases the returned cycle completed: each one raised the
\* generation counter of the population by one
GenerationsExecuted ==
    currentPopulation'.generation - ReturnedCycle'.population.generation

\* C38: history.totalGenerations is the number of generations executed (the
\* Replacement phases completed in the cycles that returned), also when a
\* cycle ended early, and it equals the generation counter of the current
\* population.
C38_TotalGenerationsExact ==
    /\ [][CycleReturned =>
            history'.totalGenerations - history.totalGenerations = GenerationsExecuted]_vars
    /\ [](~isRunning /\ lifecycle = "active"
              => history.totalGenerations = currentPopulation.generation)


\* C39: after shutdown() has completed no evolution cycle starts again: the
\* pending scheduled timer and the interval of auto-evolution are both
\* cancelled, and no cycle is in progress when shutdown returns or later.
C39_NoCycleAfterShutdown ==
    lifecycle = "shutdown" => ~isRunning /\ timers = {} /\ ~autoInterval


\* the agent object provides execute and serialize
ProvidesOperations(agent) == agent.hasMethods

\* C40: every agent the engine places in a population, offspring of
\* crossover and mutation included, provides execute and serialize, so with
\* working collaborators no evolve call of an idle engine ends in an error,
\* whatever number of evolve calls came before.
C40_OffspringKeepOperations ==
    /\ \A i \in 1..Len(currentPopulation.agents) :
          ProvidesOperations(currentPopulation.agents[i].agent)
    /\ lastResult.result # "Error"

====
